---- MODULE Spec2Model ----
(***************************************************************************)
(* Analysis-request orchestration of the code analyzer dashboard server:   *)
(* the Express handlers of POST /api/analyze and GET /api/issues and the   *)
(* AdvancedAIService they call (remote Cloud Function, local Python        *)
(* process, deterministic fallback).                                       *)
(*                                                                         *)
(* JavaScript objects are functions from property names to values. An      *)
(* object is modelled in the form res.json() serialises it: a property     *)
(* whose value is undefined is left out of the domain.  Timestamps         *)
(* (new Date().toISOString()) are the token "iso"; fractions such as       *)
(* confidence 0.97 are hundredths (97).                                    *)
(***************************************************************************)
EXTENDS Integers, Sequences, FiniteSets, TLC

\* ---------------------------------------------------------------- bounds
\* Number of POST /api/analyze requests, numbered in order of arrival.
MaxReq == 2
\* Date.now() reads a value in 0..MaxClock.
MaxClock == 1
\* Math.random() returns k / RandomDen for some k in 0..RandomDen-1.
RandomDen == 40
\* Number of requests to the endpoints beside /api/analyze and /api/issues.
MaxCalls == 3
\* Number of analyses started by the browser client (in the first request slots).
MaxClients == 1
\* Number of analyses started from the dashboard.
MaxAnalyses == 2
\* The browser's Date.now() reads a value in 0..MaxTime; it never goes back.
MaxTime == 2
\* Number of fetches useApiData starts, and of calls of its refetch().
MaxFetches == 2

VARIABLES
  serverVersion,       \* which server file runs: "2.1.0" or "2.0.0"
  CLOUD_FUNCTION_URL,  \* process.env.CLOUD_FUNCTION_URL is set
  USE_CLOUD_FUNCTION,  \* process.env.USE_CLOUD_FUNCTION === 'true'
  isInitialized,       \* AdvancedAIService.isInitialized
  endpointId,          \* AdvancedAIService.endpointId
  initPc,              \* position of the initialize() call made at startup
  crashed,             \* an uncaught exception ended the Node process
  reqs,                \* the POST /api/analyze requests
  issuesOut,           \* GET /api/issues: the last query and its response
  pureOut,             \* last application of a pure function
  calls,               \* requests to /api/cloud-function/status and /api/ai/create-endpoint
  v1,                  \* the first server (AIAnalysisService): its environment and requests
  clients,             \* ApiService.startAnalysis calls of the browser client
  app,                 \* the state of the dashboard's App component
  hook                 \* the state of one useApiData hook

vars == <<serverVersion, CLOUD_FUNCTION_URL, USE_CLOUD_FUNCTION, isInitialized,
          endpointId, initPc, crashed, reqs, issuesOut, pureOut, calls, v1, clients,
          app, hook>>

Requests == 1..MaxReq
Clock == 0..MaxClock
Calls == 1..MaxCalls

\* ------------------------------------------------------- object helpers
EmptyObj == <<>>

Has(obj, key) == key \in DOMAIN obj

\* obj.key with a default for an absent (undefined) property
Get(obj, key, default) == IF Has(obj, key) THEN obj[key] ELSE default

\* { key: source.from } where an undefined value is not serialised
Copy(key, source, from) == IF Has(source, from) THEN key :> source[from] ELSE EmptyObj

\* Math.random(): the numerator k of k / RandomDen
MathRandom == 0..(RandomDen - 1)

\* two consecutive draws, sampled at opposite ends of the range, for the
\* handlers, which only carry the drawn values along
RandomPairs == {<<0, RandomDen - 1>>, <<RandomDen - 1, 0>>}

\* Math.ceil in the place of Math.floor
CeilRandom(k, n) == (k * n + RandomDen - 1) \div RandomDen

\* Math.floor(Math.random() * n) for the draw k / RandomDen
FloorRandom(k, n) == (k * n) \div RandomDen

\* ------------------------------------------------------------ JS values
\* the value undefined of a string-valued property or parameter
Undefined == "undefined"

\* properties holding strings that may be undefined
StringKeys == {"repoPath", "commitHash"}

\* JSON.stringify as res.json() applies it to the top level of a response:
\* a property whose value is undefined is not written
Serialise(obj) ==
  [k \in {x \in DOMAIN obj : ~(x \in StringKeys /\ obj[x] = Undefined)} |-> obj[k]]

\* a || b for a string a that may be undefined
OrElse(a, b) == IF a = Undefined THEN b ELSE a

\* a JSON document, or the value undefined
JNull == [t |-> "null"]
JUndefined == [t |-> "undefined"]
JObj(o) == [t |-> "object", v |-> o]

\* the completion of a call: a returned (resolved) value or a thrown
\* (rejected) error
Resolved(v) == [kind |-> "resolved", value |-> v]
Rejected(m) == [kind |-> "rejected", error |-> m]

\* one backend attempt of a request, for the record of what was tried: how it
\* ended, and what the backend itself said of its analysis ("success",
\* "failure", or "-" when it said nothing)
Step(b, o) == [backend |-> b, outcome |-> o, said |-> "-"]

\* -------------------------------------------------- AdvancedAIService
\* getFallbackAnalysis(repoPath, options); k1, k2 are its two Math.random() draws
FallbackIssues ==
  << [type |-> "quality", severity |-> "medium", file |-> "example.py", line |-> 42,
      rule |-> "FALLBACK-001", confidence |-> 70],
     [type |-> "security", severity |-> "high", file |-> "auth.py", line |-> 15,
      rule |-> "FALLBACK-002", confidence |-> 60] >>

getFallbackAnalysis(repoPath, options, k1, k2) ==
  [ success |-> TRUE,
    message |-> "Analysis completed using fallback mode",
    repoPath |-> repoPath,
    commitHash |-> OrElse(Get(options, "commitHash", Undefined), "HEAD"),
    timestamp |-> "iso",
    repository_analysis |->
      [ overall_score |-> FloorRandom(k1, 20) + 75,
        total_files |-> FloorRandom(k2, 30) + 20,
        risk_level |-> "medium",
        deployment_ready |-> TRUE ],
    issues |-> FallbackIssues,
    recommendations |-> <<"enable-ai", "configure-vertex-ai", "automated-testing">>,
    summary |-> "Fallback analysis completed. Enable AI for enhanced results.",
    ai_powered |-> FALSE,
    fallback_mode |-> TRUE ]

\* result.repository_analysis?.total_files || 0
FilesProcessed(o) ==
  IF Has(o, "repository_analysis") /\ Has(o["repository_analysis"], "total_files")
  THEN o["repository_analysis"]["total_files"]
  ELSE 0

\* enhanceAnalysisResult(result, analysisData), reading this.isInitialized and
\* this.endpointId.  Reading result.repository_analysis of null or undefined
\* throws a TypeError.
enhanceAnalysisResult(result, analysisData, initialized, endpoint) ==
  IF result.t # "object"
  THEN Rejected("TypeError")
  ELSE Resolved(
    ( "enhanced_metadata" :>
        [ analysis_timestamp |-> "iso",
          analysis_method |-> IF analysisData.useCloudFunction
                              THEN "cloud_function" ELSE "local_endpoint",
          ai_powered |-> TRUE,
          vertex_ai_enabled |-> initialized,
          endpoint_id |-> endpoint,
          service_version |-> "2.0.0" ]
      @@
      "performance_metrics" :>
        [ analysis_duration |-> "45.2s",
          files_processed |-> FilesProcessed(result.v),
          ai_confidence |-> 92,
          model_version |-> "vertex-ai-code-bison-v2" ] )
    @@ result.v )

\* const analysisData = {...} of analyzeRepositoryWithAI
AnalysisData(repoPath, options) ==
  [ repoPath |-> repoPath,
    commitHash |-> OrElse(Get(options, "commitHash", Undefined), "HEAD"),
    analysisType |-> OrElse(Get(options, "analysisType", Undefined), "comprehensive"),
    useCloudFunction |-> Get(options, "useCloudFunction", FALSE) ]

\* analyzeRepositoryWithAI without its catch: the error goes to the caller
AiCatchRethrows(outcome, repoPath, options, k1, k2) == outcome

\* the catch of analyzeRepositoryWithAI: a failure of the chosen backend turns
\* into the fallback analysis
AiCatch(outcome, repoPath, options, k1, k2) ==
  IF outcome.kind = "rejected"
  THEN Resolved(getFallbackAnalysis(repoPath, options, k1, k2))
  ELSE outcome

\* ------------------------------------------------ what the backends answer
\* the text of a body: not JSON at all, or the JSON document doc
NotJson == [json |-> FALSE]
Json(doc) == [json |-> TRUE, doc |-> doc]

\* JSON.parse / response.json()
JSONparse(text) == IF text.json THEN Resolved(text.doc) ELSE Rejected("SyntaxError")

\* documents the Cloud Function may answer with
RemoteFull ==
  [ status |-> "success",
    issues |-> << [type |-> "security", severity |-> "high", file |-> "db.py",
                   line |-> 7, rule |-> "CF-1", confidence |-> 90] >>,
    metadata |-> [files_analyzed |-> 7],
    repository_analysis |-> [overall_score |-> 88, total_files |-> 7,
                             risk_level |-> "low", deployment_ready |-> TRUE],
    analysis |-> [ success |-> TRUE,
                   repository_analysis |-> [overall_score |-> 88, total_files |-> 7] ] ]
RemoteBare == [status |-> "success", issues |-> <<>>, metadata |-> [files_analyzed |-> 7]]
RemoteError == [status |-> "error"]

\* the ways a fetch of the Cloud Function ends: a network error, a non-2xx
\* response, a 2xx response with some body
RemoteOutcomes ==
  { [net |-> "error"], [net |-> "response", ok |-> FALSE, body |-> NotJson] }
  \cup { [net |-> "response", ok |-> TRUE, body |-> b] :
           b \in {NotJson, Json(JNull), Json(JObj(RemoteFull)),
                  Json(JObj(RemoteBare)), Json(JObj(RemoteError))} }

\* documents the analysis process may print
LocalFull ==
  [ success |-> TRUE,
    message |-> "Vertex AI analysis completed",
    repository_analysis |-> [overall_score |-> 91, total_files |-> 12],
    issues |-> <<>> ]
LocalFailure == [success |-> FALSE, message |-> "Vertex AI analysis failed"]

\* the ways the analysis process closes: its exit code and collected stdout
LocalOutcomes ==
  [ code : {0, 1},
    stdout : {NotJson, Json(JNull), Json(JObj(LocalFull)), Json(JObj(LocalFailure))} ]

\* -------------------------------------------------------- request bodies
\* req.body of POST /api/analyze
Bodies ==
  { rp @@ ai @@ cf :
      rp \in {EmptyObj, "repoPath" :> "/tmp/x"},
      ai \in {EmptyObj, "useAI" :> FALSE},
      cf \in {EmptyObj, "useCloudFunction" :> TRUE} }

\* const { repoPath, commitHash, analysisType = 'comprehensive', useAI = true,
\*         useCloudFunction = false } = req.body
RepoPath(body) == Get(body, "repoPath", Undefined)
CommitHash(body) == Get(body, "commitHash", Undefined)
AnalysisType(body) == Get(body, "analysisType", "comprehensive")
UseAI(body) == Get(body, "useAI", TRUE)
UseCloudFunction(body) == Get(body, "useCloudFunction", FALSE)

\* the options object the handlers pass to analyzeRepositoryWithAI
ServiceOptions(body, ucf) ==
  [ commitHash |-> CommitHash(body),
    analysisType |-> AnalysisType(body),
    useCloudFunction |-> ucf ]

\* ------------------------------------------- POST /api/analyze: the results
\* analysisResults of the Cloud Function with success set whatever the status
CloudAnalysisResultsSucceeding(cloudResult, body, k) ==
  [ success |-> TRUE,
    message |-> "Cloud Function analysis completed successfully",
    repoPath |-> RepoPath(body),
    commitHash |-> CommitHash(body),
    timestamp |-> "iso",
    issues |-> Get(cloudResult, "issues", <<>>),
    cloud_function_used |-> TRUE,
    repository_analysis |->
      IF Has(cloudResult, "repository_analysis")
      THEN cloudResult["repository_analysis"]
      ELSE [ overall_score |-> FloorRandom(k, 20) + 80,
             total_files |-> IF Has(cloudResult, "metadata")
                             THEN Get(cloudResult["metadata"], "files_analyzed", 0)
                             ELSE 0,
             risk_level |-> "medium",
             deployment_ready |-> TRUE ] ]
  @@ Copy("metadata", cloudResult, "metadata")

\* analysisResults built from the Cloud Function's answer (server 2.1.0);
\* k is the Math.random() draw of the default repository_analysis
CloudAnalysisResults(cloudResult, body, k) ==
  [ success |-> (Get(cloudResult, "status", Undefined) = "success"),
    message |-> "Cloud Function analysis completed successfully",
    repoPath |-> RepoPath(body),
    commitHash |-> CommitHash(body),
    timestamp |-> "iso",
    issues |-> Get(cloudResult, "issues", <<>>),
    cloud_function_used |-> TRUE,
    repository_analysis |->
      IF Has(cloudResult, "repository_analysis")
      THEN cloudResult["repository_analysis"]
      ELSE [ overall_score |-> FloorRandom(k, 20) + 80,
             total_files |-> IF Has(cloudResult, "metadata")
                             THEN Get(cloudResult["metadata"], "files_analyzed", 0)
                             ELSE 0,
             risk_level |-> "medium",
             deployment_ready |-> TRUE ] ]
  @@ Copy("metadata", cloudResult, "metadata")

\* the standard analysis scoring from 75 as the fallback analysis does
StandardAnalysisFrom75(body, k1, k2) ==
  [ success |-> TRUE,
    message |-> "Standard analysis completed",
    repoPath |-> RepoPath(body),
    commitHash |-> CommitHash(body),
    timestamp |-> "iso",
    repository_analysis |->
      [ overall_score |-> FloorRandom(k1, 20) + 75,
        total_files |-> FloorRandom(k2, 20) + 40,
        risk_level |-> "medium",
        deployment_ready |-> TRUE ],
    ai_powered |-> FALSE ]

\* analysisResults of the standard analysis (useAI false)
StandardAnalysis(body, k1, k2) ==
  [ success |-> TRUE,
    message |-> "Standard analysis completed",
    repoPath |-> RepoPath(body),
    commitHash |-> CommitHash(body),
    timestamp |-> "iso",
    repository_analysis |->
      [ overall_score |-> FloorRandom(k1, 20) + 80,
        total_files |-> FloorRandom(k2, 20) + 40,
        risk_level |-> "medium",
        deployment_ready |-> TRUE ],
    ai_powered |-> FALSE ]

\* request_metadata with a request_id counted up over the requests answered
RequestMetadataCounted(version, body, t) ==
  LET answered == Cardinality({p \in Requests : reqs[p].pc = "done"}) IN
  IF version = "2.1.0"
  THEN [ analysis_type |-> AnalysisType(body),
         ai_enabled |-> UseAI(body),
         cloud_function_enabled |-> UseCloudFunction(body),
         processing_time |-> "45.2s",
         request_id |-> answered,
         api_version |-> "2.1.0" ]
  ELSE [ analysis_type |-> AnalysisType(body),
         ai_enabled |-> UseAI(body),
         processing_time |-> "45.2s",
         request_id |-> answered,
         api_version |-> "2.0.0" ]

\* analysisResults.request_metadata; t is the reading of Date.now()
RequestMetadata(version, body, t) ==
  IF version = "2.1.0"
  THEN [ analysis_type |-> AnalysisType(body),
         ai_enabled |-> UseAI(body),
         cloud_function_enabled |-> UseCloudFunction(body),
         processing_time |-> "45.2s",
         request_id |-> t,
         api_version |-> "2.1.0" ]
  ELSE [ analysis_type |-> AnalysisType(body),
         ai_enabled |-> UseAI(body),
         processing_time |-> "45.2s",
         request_id |-> t,
         api_version |-> "2.0.0" ]

\* the body of the 500 response of the handler's catch
AnalysisFailed(body, message) ==
  [ success |-> FALSE,
    message |-> "Analysis failed",
    error |-> message,
    repoPath |-> RepoPath(body),
    commitHash |-> CommitHash(body),
    timestamp |-> "iso",
    fallback_available |-> TRUE ]

\* a request not yet received
NoRequest ==
  [ pc |-> "idle", body |-> EmptyObj, trace |-> <<>>, viaCatch |-> FALSE,
    ai |-> "none", status |-> 0, resp |-> EmptyObj ]

\* the record of attempts, with the deterministic fallback noted when the
\* result is its result
WithFallback(trace, outcome) ==
  IF outcome.kind = "resolved" /\ Get(outcome.value, "fallback_mode", FALSE)
  THEN Append(trace, Step("fallback", "ok"))
  ELSE trace

SetOutcome(trace, o, said) ==
  [trace EXCEPT ![Len(trace)].outcome = o, ![Len(trace)].said = said]

\* the handler's end without the cloud_function_fallback mark
RespondUnmarked(q, version, outcome, t) ==
  IF outcome.kind = "rejected"
  THEN [ q EXCEPT !.pc = "done", !.status = 500,
           !.resp = Serialise(AnalysisFailed(q.body, outcome.error)) ]
  ELSE [ q EXCEPT !.pc = "done", !.status = 200,
           !.resp = Serialise(
              ("request_metadata" :> RequestMetadata(version, q.body, t))
              @@ outcome.value) ]

\* The end of the handler: the result of the chosen path gets the
\* cloud_function_fallback mark (in the catch of the Cloud Function call) and
\* request_metadata and is sent with res.json(); an error thrown on the way is
\* answered by the outer catch with status 500.
Respond(q, version, outcome, t) ==
  IF outcome.kind = "rejected"
  THEN [ q EXCEPT !.pc = "done", !.status = 500,
           !.resp = Serialise(AnalysisFailed(q.body, outcome.error)) ]
  ELSE [ q EXCEPT !.pc = "done", !.status = 200,
           !.resp = Serialise(
              ("request_metadata" :> RequestMetadata(version, q.body, t))
              @@ (IF q.viaCatch THEN "cloud_function_fallback" :> TRUE ELSE EmptyObj)
              @@ outcome.value) ]

\* The return of analyzeRepositoryWithAI to the handler that awaits it.
AiReturn(q, version, outcome, t) ==
  Respond([q EXCEPT !.ai = outcome.kind, !.trace = WithFallback(q.trace, outcome)],
          version, outcome, t)

\* analyzeRepositoryWithAI without the test of isInitialized
analyzeRepositoryWithAIUnguarded(q, version, ucf, initialized, urlSet, strict, k1, k2, t) ==
  LET repoPath == RepoPath(q.body)
      options == ServiceOptions(q.body, ucf)
      analysisData == AnalysisData(repoPath, options)
  IN
  IF analysisData.useCloudFunction
  THEN IF ~urlSet
       THEN AiReturn([q EXCEPT !.trace = Append(@, Step("service", "url_missing"))],
                     version,
                     AiCatch(Rejected("Cloud Function URL not configured"),
                             repoPath, options, k1, k2), t)
       ELSE [q EXCEPT !.pc = "service_fetch", !.ai = "called",
                      !.trace = Append(@, Step("remote", "sent"))]
  ELSE IF repoPath = Undefined /\ strict
  THEN AiReturn([q EXCEPT !.trace = Append(@, Step("local", "spawn_throws"))],
                version,
                AiCatch(Rejected("ERR_INVALID_ARG_TYPE"), repoPath, options, k1, k2), t)
  ELSE [q EXCEPT !.pc = "local_process", !.ai = "called",
                 !.trace = Append(@, Step("local", "spawned"))]

\* analyzeRepositoryWithAI(repoPath, options) up to its first suspension: the
\* request as it is when the call either has returned or waits for a backend.
\* Whether spawn() throws on the argument undefined (a repoPath that is not
\* given) or passes it on as text depends on the Node version: strict says
\* which of the two happens.
analyzeRepositoryWithAI(q, version, ucf, initialized, urlSet, strict, k1, k2, t) ==
  LET repoPath == RepoPath(q.body)
      options == ServiceOptions(q.body, ucf)
      analysisData == AnalysisData(repoPath, options)
  IN
  IF ~initialized
  THEN AiReturn([q EXCEPT !.trace = Append(@, Step("service", "not_initialized"))],
                version, Resolved(getFallbackAnalysis(repoPath, options, k1, k2)), t)
  ELSE IF analysisData.useCloudFunction
  THEN IF ~urlSet
       THEN AiReturn([q EXCEPT !.trace = Append(@, Step("service", "url_missing"))],
                     version,
                     AiCatch(Rejected("Cloud Function URL not configured"),
                             repoPath, options, k1, k2), t)
       ELSE [q EXCEPT !.pc = "service_fetch", !.ai = "called",
                      !.trace = Append(@, Step("remote", "sent"))]
  ELSE IF repoPath = Undefined /\ strict
  THEN AiReturn([q EXCEPT !.trace = Append(@, Step("local", "spawn_throws"))],
                version,
                AiCatch(Rejected("ERR_INVALID_ARG_TYPE"), repoPath, options, k1, k2), t)
  ELSE [q EXCEPT !.pc = "local_process", !.ai = "called",
                 !.trace = Append(@, Step("local", "spawned"))]

\* fetch(cloudFunctionUrl, ...), the response.ok test and response.json():
\* the parsed document, or the error thrown
FetchJson(o) ==
  IF o.net = "error" THEN Rejected("fetch failed")
  ELSE IF ~o.ok THEN Rejected("Cloud Function request failed")
  ELSE JSONparse(o.body)

\* how the record of attempts names the end of a remote call
RemoteLabel(o, outcome) ==
  IF o.net = "error" THEN "network_error"
  ELSE IF ~o.ok THEN "non_2xx"
  ELSE IF outcome.kind = "rejected" THEN "malformed"
  ELSE "ok"

\* analyzeWithCloudFunction(analysisData) from the end o of its fetch
analyzeWithCloudFunction(o, analysisData, initialized, endpoint) ==
  LET result == FetchJson(o) IN
  IF result.kind = "rejected" THEN result
  ELSE IF result.value.t # "object" THEN Rejected("TypeError")
  ELSE enhanceAnalysisResult(
         IF Has(result.value.v, "analysis")
         THEN JObj(result.value.v["analysis"]) ELSE JUndefined,
         analysisData, initialized, endpoint)

\* analyzeWithLocalEndpoint reading the output whatever the exit code is
analyzeWithLocalEndpointAnyExit(o, analysisData, initialized, endpoint, k1, k2) ==
  LET fallback == Resolved(getFallbackAnalysis(analysisData.repoPath, analysisData, k1, k2))
      result == JSONparse(o.stdout)
      enhanced == enhanceAnalysisResult(result.value, analysisData, initialized, endpoint)
  IN
  IF result.kind = "rejected" THEN fallback
  ELSE IF enhanced.kind = "rejected" THEN fallback
  ELSE enhanced

\* analyzeWithLocalEndpoint(analysisData) from the close o of its process
analyzeWithLocalEndpoint(o, analysisData, initialized, endpoint, k1, k2) ==
  LET fallback == Resolved(getFallbackAnalysis(analysisData.repoPath, analysisData, k1, k2))
      result == JSONparse(o.stdout)
      enhanced == enhanceAnalysisResult(result.value, analysisData, initialized, endpoint)
  IN
  IF o.code = 0
  THEN IF result.kind = "rejected" THEN fallback
       ELSE IF enhanced.kind = "rejected" THEN fallback
       ELSE enhanced
  ELSE fallback

LocalLabel(o, outcome) ==
  IF o.code # 0 THEN "nonzero_exit"
  ELSE IF Get(outcome.value, "fallback_mode", FALSE) THEN "unparsable"
  ELSE "ok"

\* what a document says of the analysis it reports, in the property key
Said(text, key, good) ==
  IF text.json /\ text.doc.t = "object" /\ Has(text.doc.v, key)
  THEN IF text.doc.v[key] = good THEN "success" ELSE "failure"
  ELSE "-"

LocalSaid(o) == IF o.code = 0 THEN Said(o.stdout, "success", TRUE) ELSE "-"

RemoteSaid(o) ==
  IF o.net = "response" /\ o.ok THEN Said(o.body, "status", "success") ELSE "-"

\* server 2.1.0 calling the Cloud Function without looking at its URL
PostAnalyze210NoUrlCheck(q, initialized, urlSet, strict, k1, k2, t) ==
  IF UseCloudFunction(q.body)
  THEN [q EXCEPT !.pc = "handler_fetch", !.trace = Append(@, Step("remote", "sent"))]
  ELSE IF UseAI(q.body)
  THEN analyzeRepositoryWithAI(q, "2.1.0", FALSE, initialized, urlSet, strict, k1, k2, t)
  ELSE [q EXCEPT !.pc = "standard_timer"]

\* app.post('/api/analyze') of server 2.1.0, up to its first suspension
PostAnalyze210(q, initialized, urlSet, strict, k1, k2, t) ==
  IF UseCloudFunction(q.body) /\ urlSet
  THEN [q EXCEPT !.pc = "handler_fetch", !.trace = Append(@, Step("remote", "sent"))]
  ELSE IF UseAI(q.body)
  THEN analyzeRepositoryWithAI(q, "2.1.0", FALSE, initialized, urlSet, strict, k1, k2, t)
  ELSE [q EXCEPT !.pc = "standard_timer"]

\* server 2.0.0 calling the AI service whatever useAI says
PostAnalyze200AlwaysAI(q, initialized, urlSet, useCloudEnv, strict, k1, k2, t) ==
  analyzeRepositoryWithAI(q, "2.0.0", useCloudEnv, initialized, urlSet, strict, k1, k2, t)

\* app.post('/api/analyze') of server 2.0.0, up to its first suspension
PostAnalyze200(q, initialized, urlSet, useCloudEnv, strict, k1, k2, t) ==
  IF UseAI(q.body)
  THEN analyzeRepositoryWithAI(q, "2.0.0", useCloudEnv, initialized, urlSet, strict, k1, k2, t)
  ELSE [q EXCEPT !.pc = "standard_timer"]

\* the handler of server 2.1.0 without the inner catch: a failed Cloud
\* Function call goes to the outer catch and ends the request
HandlerFetchEndAborts(q, o, initialized, urlSet, strict, k1, k2, t) ==
  LET cloudResult == FetchJson(o)
      parsed == IF cloudResult.kind = "resolved" /\ cloudResult.value.t # "object"
                THEN Rejected("TypeError") ELSE cloudResult
      tried == [q EXCEPT !.trace = SetOutcome(@, RemoteLabel(o, parsed), RemoteSaid(o))]
  IN
  IF parsed.kind = "resolved"
  THEN Respond(tried, "2.1.0",
               Resolved(CloudAnalysisResults(parsed.value.v, q.body, k1)), t)
  ELSE Respond(tried, "2.1.0", parsed, t)

\* The handler of server 2.1.0 when its own fetch of the Cloud Function ends:
\* the result is built from the answer, or the catch falls back to
\* analyzeRepositoryWithAI with useCloudFunction false.
HandlerFetchEnd(q, o, initialized, urlSet, strict, k1, k2, t) ==
  LET cloudResult == FetchJson(o)
      parsed == IF cloudResult.kind = "resolved" /\ cloudResult.value.t # "object"
                THEN Rejected("TypeError") ELSE cloudResult
      tried == [q EXCEPT !.trace = SetOutcome(@, RemoteLabel(o, parsed), RemoteSaid(o))]
  IN
  IF parsed.kind = "resolved"
  THEN Respond(tried, "2.1.0",
               Resolved(CloudAnalysisResults(parsed.value.v, q.body, k1)), t)
  ELSE analyzeRepositoryWithAI([tried EXCEPT !.viaCatch = TRUE], "2.1.0", FALSE,
                               initialized, urlSet, strict, k1, k2, t)

\* ------------------------------------------------------- GET /api/issues
\* const issues = [...] of server 2.1.0
Issues210 ==
  << [ type |-> "security", severity |-> "critical", file |-> "auth/login.py",
       line |-> 42, rule |-> "CF-SEC-001", ai_detected |-> TRUE, confidence |-> 97,
       cloud_function_analysis |-> TRUE, remediation_priority |-> 1 ],
     [ type |-> "quality", severity |-> "high", file |-> "utils/helpers.py",
       line |-> 128, rule |-> "CF-QUAL-002", ai_detected |-> TRUE, confidence |-> 91,
       cloud_function_analysis |-> TRUE, remediation_priority |-> 2 ],
     [ type |-> "performance", severity |-> "medium", file |-> "api/endpoints.py",
       line |-> 67, rule |-> "CF-PERF-003", ai_detected |-> TRUE, confidence |-> 88,
       cloud_function_analysis |-> TRUE, remediation_priority |-> 3 ],
     [ type |-> "security", severity |-> "high", file |-> "config/settings.py",
       line |-> 15, rule |-> "CF-SEC-004", ai_detected |-> TRUE, confidence |-> 93,
       cloud_function_analysis |-> TRUE, remediation_priority |-> 1 ] >>

\* const issues = [...] of server 2.0.0
Issues200 ==
  << [ type |-> "security", severity |-> "critical", file |-> "auth/login.py",
       line |-> 42, rule |-> "AI-SEC-001", ai_detected |-> TRUE, confidence |-> 95,
       remediation_priority |-> 1 ],
     [ type |-> "quality", severity |-> "high", file |-> "utils/helpers.py",
       line |-> 128, rule |-> "AI-QUAL-002", ai_detected |-> TRUE, confidence |-> 89,
       remediation_priority |-> 2 ],
     [ type |-> "performance", severity |-> "medium", file |-> "api/endpoints.py",
       line |-> 67, rule |-> "AI-PERF-003", ai_detected |-> TRUE, confidence |-> 82,
       remediation_priority |-> 3 ],
     [ type |-> "security", severity |-> "high", file |-> "config/settings.py",
       line |-> 15, rule |-> "AI-SEC-004", ai_detected |-> TRUE, confidence |-> 91,
       remediation_priority |-> 1 ] >>

IssuesOf(version) == IF version = "2.1.0" THEN Issues210 ELSE Issues200

\* req.query: each parameter may be missing; "" is a parameter given empty
Queries ==
  { ty @@ sv @@ ai @@ cf :
      ty \in {EmptyObj} \cup { "type" :> v :
                v \in {"", "security", "quality", "performance", "style"} },
      sv \in {EmptyObj} \cup { "severity" :> v :
                v \in {"", "critical", "high", "medium", "low"} },
      ai \in {EmptyObj} \cup { "ai_only" :> v : v \in {"true", "false"} },
      cf \in {EmptyObj} \cup { "cloud_function_only" :> v : v \in {"true", "false"} } }

\* if (x): a string is truthy unless it is undefined or empty
Truthy(query, key) == Has(query, key) /\ query[key] # ""

\* Array.prototype.filter
Filter(seq, Keep(_)) == SelectSeq(seq, Keep)

FilterType(seq, query) ==
  IF Truthy(query, "type")
  THEN LET Keep(issue) == issue.type = query["type"] IN Filter(seq, Keep)
  ELSE seq

\* the severity parameter ignored
FilterSeverityOff(seq, query) == seq

FilterSeverity(seq, query) ==
  IF Truthy(query, "severity")
  THEN LET Keep(issue) == issue.severity = query["severity"] IN Filter(seq, Keep)
  ELSE seq

FilterAiOnly(seq, query) ==
  IF Get(query, "ai_only", Undefined) = "true"
  THEN LET Keep(issue) == Get(issue, "ai_detected", FALSE) IN Filter(seq, Keep)
  ELSE seq

FilterCloudFunctionOnly(seq, query) ==
  IF Get(query, "cloud_function_only", Undefined) = "true"
  THEN LET Keep(issue) == Get(issue, "cloud_function_analysis", FALSE) IN Filter(seq, Keep)
  ELSE seq

\* the comparator with the operands of the tie-break swapped
CompareIssuesSwapped(a, b) ==
  IF a.remediation_priority # b.remediation_priority
  THEN a.remediation_priority - b.remediation_priority
  ELSE Get(a, "confidence", 0) - Get(b, "confidence", 0)

\* the comparator of filteredIssues.sort(): negative when a goes before b
CompareIssues(a, b) ==
  IF a.remediation_priority # b.remediation_priority
  THEN a.remediation_priority - b.remediation_priority
  ELSE Get(b, "confidence", 0) - Get(a, "confidence", 0)

\* Array.prototype.sort with that comparator; the sort is stable
RECURSIVE InsertIssue(_, _)
InsertIssue(sorted, x) ==
  IF sorted = <<>> THEN <<x>>
  ELSE IF CompareIssues(x, Head(sorted)) < 0 THEN <<x>> \o sorted
  ELSE <<Head(sorted)>> \o InsertIssue(Tail(sorted), x)

RECURSIVE SortIssues(_)
SortIssues(seq) ==
  IF seq = <<>> THEN <<>>
  ELSE InsertIssue(SortIssues(SubSeq(seq, 1, Len(seq) - 1)), seq[Len(seq)])

RECURSIVE SumConfidence(_)
SumConfidence(seq) ==
  IF seq = <<>> THEN 0 ELSE Get(Head(seq), "confidence", 0) + SumConfidence(Tail(seq))

HighConfidence(issue) == Get(issue, "confidence", 0) > 90
AiDetected(issue) == Get(issue, "ai_detected", FALSE)
CloudFunctionAnalysis(issue) == Get(issue, "cloud_function_analysis", FALSE)

\* metadata of the response; the average of no issue is 0 / 0
IssuesMetadata(version, filtered) ==
  [ total_issues |-> Len(filtered),
    ai_detected_issues |-> Len(Filter(filtered, AiDetected)),
    avg_confidence |-> IF Len(filtered) = 0 THEN [nan |-> TRUE, value |-> 0]
                       ELSE [nan |-> FALSE,
                             value |-> SumConfidence(filtered) \div Len(filtered)],
    high_confidence_issues |-> Len(Filter(filtered, HighConfidence)) ]
  @@ (IF version = "2.1.0"
      THEN "cloud_function_issues" :> Len(Filter(filtered, CloudFunctionAnalysis))
      ELSE EmptyObj)

\* app.get('/api/issues'): the body of the response to req.query
GetIssues(version, query) ==
  LET byType == FilterType(IssuesOf(version), query)
      bySeverity == FilterSeverity(byType, query)
      byAi == FilterAiOnly(bySeverity, query)
      filteredIssues == IF version = "2.1.0"
                        THEN FilterCloudFunctionOnly(byAi, query) ELSE byAi
      sorted == SortIssues(filteredIssues)
  IN [ issues |-> sorted, metadata |-> IssuesMetadata(version, sorted) ]

\* ------------------------------------------- the endpoints beside the two
\* A message is the sequence of the pieces its text is put together from: a
\* template literal `a ${b}` is Text(a) \o Text(b).
Text(s) == <<s>>
NoError == <<>>

\* what fetch() of the health check rejects with
FetchErrors == {Text("fetch failed"), Text("getaddrinfo ENOTFOUND")}

\* the ways the fetch of the health check ends
HealthOutcomes ==
  { [net |-> "error", error |-> m] : m \in FetchErrors }
  \cup { [net |-> "response", status |-> st] : st \in {200, 404, 500} }

\* what the endpoint manager process has written when it closes: the id in a
\* line 'Endpoint ID: <id>' of its stdout (NoId when there is no such line)
\* and its stderr
NoId == "none"
EndpointOutcomes ==
  [ code : {0, 1}, id : {NoId, "ep-1", "ep-2"}, stderr : {"", "Traceback"} ]

\* a request not yet received
NoCall ==
  [ pc |-> "idle", endpoint |-> "none", status |-> 0, resp |-> EmptyObj,
    error |-> NoError ]

\* the catch of GET /api/cloud-function/status
StatusFailed(error, urlSet) ==
  [ available |-> FALSE, error |-> error,
    url |-> IF urlSet THEN "CLOUD_FUNCTION_URL" ELSE "null", last_check |-> "iso" ]

\* app.get('/api/cloud-function/status') up to its fetch
GetCloudFunctionStatus(urlSet) ==
  IF ~urlSet
  THEN [ pc |-> "done", endpoint |-> "cloud-function/status", status |-> 200,
         resp |-> [ available |-> FALSE,
                    message |-> Text("Cloud Function URL not configured"),
                    url |-> "null" ],
         error |-> NoError ]
  ELSE [NoCall EXCEPT !.pc = "health_fetch", !.endpoint = "cloud-function/status"]

\* app.get('/api/cloud-function/status') from the end o of its fetch
HealthFetchEnd(call, o, urlSet) ==
  IF o.net = "error"
  THEN [ call EXCEPT !.pc = "done", !.status = 200, !.error = o.error,
           !.resp = StatusFailed(o.error, urlSet) ]
  ELSE [ call EXCEPT !.pc = "done", !.status = 200,
           !.resp = [ available |-> (o.status \in 200..299), status |-> o.status,
                      url |-> "CLOUD_FUNCTION_URL", health_check_url |-> "health_check",
                      last_check |-> "iso" ] ]

\* the catch of POST /api/ai/create-endpoint
CreateEndpointFailed(call, error) ==
  [ call EXCEPT !.pc = "done", !.status = 500, !.error = error,
      !.resp = [ success |-> FALSE,
                 error |-> Text("Failed to create Vertex AI endpoint"),
                 message |-> error ] ]

\* app.post('/api/ai/create-endpoint') and createEndpoint() up to the spawn
PostCreateEndpoint(initialized) ==
  IF ~initialized
  THEN CreateEndpointFailed([NoCall EXCEPT !.endpoint = "ai/create-endpoint"],
                            Text("AI Service not initialized"))
  ELSE [NoCall EXCEPT !.pc = "endpoint_process", !.endpoint = "ai/create-endpoint"]

\* createEndpoint() from the close o of its process: the id it resolves with,
\* or the error it rejects with
createEndpoint(o) ==
  IF o.code = 0
  THEN IF o.id # NoId THEN Resolved(o.id)
       ELSE Rejected(Text("Could not extract endpoint ID from output"))
  ELSE Rejected(Text("Endpoint creation failed: ") \o Text(o.stderr))

\* app.post('/api/ai/create-endpoint') from the end of createEndpoint()
CreateEndpointEnd(call, outcome) ==
  IF outcome.kind = "rejected"
  THEN CreateEndpointFailed(call, outcome.error)
  ELSE [ call EXCEPT !.pc = "done", !.status = 200,
           !.resp = [ success |-> TRUE, endpoint_id |-> outcome.value,
                      message |-> Text("Vertex AI endpoint created successfully"),
                      timestamp |-> "iso" ] ]

\* getAIStatus() up to its await of checkPythonDependencies(): the properties
\* of the object literal that are evaluated before it
AIStatusRead(initialized, endpoint, credentials, urlSet) ==
  [ initialized |-> initialized,
    endpoint_id |-> endpoint,
    vertex_ai_available |-> credentials,
    cloud_function_available |-> urlSet ]

\* getAIStatus() reading endpointId when checkPythonDependencies() has settled
AIStatusReadLate(read, initialized, endpoint, dependencies) ==
  [ initialized |-> initialized,
    endpoint_id |-> endpoint,
    vertex_ai_available |-> read.vertex_ai_available,
    cloud_function_available |-> read.cloud_function_available,
    python_dependencies |-> dependencies,
    service_health |-> "operational",
    last_health_check |-> "iso" ]

\* getAIStatus() from the end of checkPythonDependencies(): dependencies is
\* true, or false from the catch of a rejection
getAIStatus(read, initialized, endpoint, dependencies) ==
  [ initialized |-> read.initialized,
    endpoint_id |-> read.endpoint_id,
    vertex_ai_available |-> read.vertex_ai_available,
    cloud_function_available |-> read.cloud_function_available,
    python_dependencies |-> dependencies,
    service_health |-> "operational",
    last_health_check |-> "iso" ]

\* ------------------------------------- the first server (version 1.0.0)
\* a request not yet received
NoV1Request ==
  [ pc |-> "idle", body |-> EmptyObj, trace |-> <<>>, status |-> 0, resp |-> JUndefined ]

\* the first server is not the one running
NoV1 == [ credentials |-> FALSE, reqs |-> [r \in Requests |-> NoV1Request] ]

\* what the 'error' event of the analysis process carries
SpawnErrors == {"spawn python3 ENOENT"}

\* analysisResults of the first server's standard analysis
V1StandardAnalysis(body, k1, k2, k3) ==
  [ success |-> TRUE,
    message |-> "Analysis completed successfully",
    repoPath |-> RepoPath(body),
    commitHash |-> CommitHash(body),
    timestamp |-> "iso",
    results |-> [ qualityScore |-> FloorRandom(k1, 20) + 80,
                  issuesFound |-> FloorRandom(k2, 10) + 15,
                  filesAnalyzed |-> FloorRandom(k3, 20) + 40,
                  ai_powered |-> FALSE ] ]

\* the body of the 500 response of the first server's catch
V1AnalysisFailed(body, message) ==
  [ success |-> FALSE,
    message |-> "Analysis failed",
    error |-> message,
    repoPath |-> RepoPath(body),
    commitHash |-> CommitHash(body),
    timestamp |-> "iso" ]

\* AIAnalysisService.analyzeWithAI from the close o of its process: the parsed
\* output it resolves with, or the error it rejects with
analyzeWithAI(o) ==
  IF o.code = 0
  THEN IF JSONparse(o.stdout).kind = "resolved"
       THEN JSONparse(o.stdout)
       ELSE Rejected("Invalid AI analysis output")
  ELSE Rejected(IF o.code = 1 THEN "AI analysis process exited with code 1"
                ELSE "AI analysis process exited with code n")

\* the end of the first server's handler: res.json(analysisResults), or the
\* catch answering 500
V1Respond(q, outcome) ==
  IF outcome.kind = "rejected"
  THEN [ q EXCEPT !.pc = "done", !.status = 500,
           !.resp = JObj(Serialise(V1AnalysisFailed(q.body, outcome.error))) ]
  ELSE [ q EXCEPT !.pc = "done", !.status = 200, !.resp = outcome.value ]

\* app.post('/api/analyze') of the first server, up to its first suspension;
\* strict says whether spawn() throws on a repoPath that is undefined
V1PostAnalyze(q, credentials, strict) ==
  IF UseAI(q.body) /\ credentials
  THEN IF RepoPath(q.body) = Undefined /\ strict
       THEN V1Respond([q EXCEPT !.trace = Append(@, Step("local", "spawn_throws"))],
                      Rejected("ERR_INVALID_ARG_TYPE"))
       ELSE [q EXCEPT !.pc = "local_process",
                      !.trace = Append(@, Step("local", "spawned"))]
  ELSE [q EXCEPT !.pc = "standard_timer"]

\* how the record of attempts names the close of the first server's process
V1Label(o, outcome) ==
  IF o.code # 0 THEN "nonzero_exit"
  ELSE IF outcome.kind = "rejected" THEN "unparsable"
  ELSE "ok"

\* ------------------------------------ the browser client (ApiService)
\* the AnalysisRequest given to startAnalysis
ClientData ==
  { rp @@ cf :
      rp \in {"repoPath" :> "/tmp/x"},
      cf \in {EmptyObj, "useCloudFunction" :> TRUE, "useCloudFunction" :> FALSE} }

\* a startAnalysis call not yet made; posts counts the POSTs to /analyze
NoClient ==
  [ pc |-> "idle", data |-> EmptyObj, trace |-> <<>>, posts |-> 0,
    result |-> EmptyObj ]

\* cloudFunctionRequest(): the parsed body, or the error thrown
cloudFunctionRequest(o) == FetchJson(o)

\* the AnalysisResponse startAnalysis builds from the Cloud Function's answer
ClientCloudResult(data, cloudResponse, k) ==
  [ success |-> (Get(cloudResponse, "status", Undefined) = "success"),
    message |-> "Cloud Function analysis completed successfully",
    repoPath |-> RepoPath(data),
    timestamp |-> "iso",
    results |->
      [ qualityScore |-> FloorRandom(k, 20) + 80,
        issuesFound |-> Len(Get(cloudResponse, "issues", <<>>)),
        filesAnalyzed |-> IF Has(cloudResponse, "metadata")
                          THEN Get(cloudResponse["metadata"], "files_analyzed", 0)
                          ELSE 0 ] ]
  @@ Copy("commitHash", data, "commitHash")
  @@ Copy("issues", cloudResponse, "issues")
  @@ Copy("metadata", cloudResponse, "metadata")

\* the request posted again as it was given
ClientFallbackBodyUnchanged(data) == data

\* { ...data, useCloudFunction: false }
ClientFallbackBody(data) == ("useCloudFunction" :> FALSE) @@ data

\* --------------------------------------------- the dashboard (App component)
\* App after its first render: the check of the Cloud Function started by the
\* mount effect is in flight.  now is the browser's clock; started and created
\* count the analyses started and the notifications shown; last is how the
\* last analysis ended; each notification and each timer carries the number
\* (serial) of the showNotification call that made it.
NoApp ==
  [ isAnalyzing |-> FALSE, agentStatus |-> "active", cloudFunctionStatus |-> "unknown",
    analysis |-> "idle", useCloudFunction |-> FALSE, started |-> 0, last |-> "none",
    notifications |-> <<>>, timers |-> {}, created |-> 0, now |-> 0 ]

\* what apiService.startAnalysis settles with
AnalysisOutcomes ==
  { Resolved(JObj([success |-> TRUE, message |-> "Standard analysis completed"])),
    Resolved(JObj([success |-> TRUE, message |-> "Cloud Function analysis completed successfully",
                   issues |-> RemoteFull["issues"]])),
    Resolved(JObj([success |-> FALSE, message |-> "Vertex AI analysis failed"])),
    Resolved(JObj([success |-> FALSE])),
    Resolved(JNull),
    Rejected("API request failed") }

\* showNotification(message, type): the notification is appended and its
\* removal is scheduled
showNotification(a, type) ==
  LET serial == a.created + 1 IN
  [ a EXCEPT !.notifications = Append(@, [id |-> a.now, type |-> type, serial |-> serial]),
             !.timers = @ \cup {[id |-> a.now, serial |-> serial]},
             !.created = serial ]

\* removeNotification(id), and the callback of the 5-second timer:
\* prev.filter(n => n.id !== id)
removeNotification(a, id) ==
  LET Keep(n) == n.id # id IN
  [ a EXCEPT !.notifications = SelectSeq(@, Keep) ]

\* handleStartAnalysis up to the await of apiService.startAnalysis
handleStartAnalysis(a) ==
  [ a EXCEPT !.isAnalyzing = TRUE, !.agentStatus = "analyzing",
             !.analysis = "in_flight",
             !.useCloudFunction = (a.cloudFunctionStatus = "available"),
             !.started = @ + 1 ]

\* handleStartAnalysis without its finally block
handleStartAnalysisNoFinally(a, outcome) ==
  LET succeeded == /\ outcome.kind = "resolved" /\ outcome.value.t = "object"
                   /\ Get(outcome.value.v, "success", FALSE)
  IN IF succeeded
     THEN [ showNotification([a EXCEPT !.agentStatus = "active"], "success")
              EXCEPT !.isAnalyzing = FALSE, !.analysis = "idle", !.last = "success" ]
     ELSE [ showNotification([a EXCEPT !.agentStatus = "error"], "error")
              EXCEPT !.analysis = "idle",
                     !.last = IF outcome.kind = "rejected" THEN "threw" ELSE "failure" ]

\* handleStartAnalysis from the end of apiService.startAnalysis: the result
\* with success set makes the agent active, every other result and every
\* error goes through the catch; finally isAnalyzing is reset
handleStartAnalysisEnd(a, outcome) ==
  LET succeeded == /\ outcome.kind = "resolved" /\ outcome.value.t = "object"
                   /\ Get(outcome.value.v, "success", FALSE)
  IN IF succeeded
     THEN [ showNotification([a EXCEPT !.agentStatus = "active"], "success")
              EXCEPT !.isAnalyzing = FALSE, !.analysis = "idle", !.last = "success" ]
     ELSE [ showNotification([a EXCEPT !.agentStatus = "error"], "error")
              EXCEPT !.isAnalyzing = FALSE, !.analysis = "idle",
                     !.last = IF outcome.kind = "rejected" THEN "threw" ELSE "failure" ]

\* ------------------------------------------------------------ useApiData
\* the hook after its first render and effect: loading is true and the first
\* fetch is in flight.  fetches counts the fetches started, inFlight those
\* not yet settled, refetches the calls of refetch().
NoHook ==
  [ data |-> "null", loading |-> TRUE, error |-> "null",
    fetches |-> 1, inFlight |-> 1, refetches |-> 0 ]

\* what apiCall() settles with
ApiCallOutcomes == {Resolved("data-1"), Resolved("data-2"), Rejected("API request failed")}

\* fetchData() up to its await: setLoading(true), setError(null), apiCall()
fetchData(h) ==
  [ h EXCEPT !.loading = TRUE, !.error = "null",
             !.fetches = @ + 1, !.inFlight = @ + 1 ]

\* fetchData() from the end of apiCall()
fetchDataEnd(h, outcome) ==
  IF outcome.kind = "resolved"
  THEN [ h EXCEPT !.data = outcome.value, !.loading = FALSE, !.inFlight = @ - 1 ]
  ELSE [ h EXCEPT !.error = outcome.error, !.loading = FALSE, !.inFlight = @ - 1 ]

\* refetch: () => setLoading(true)
refetch(h) == [ h EXCEPT !.loading = TRUE, !.refetches = @ + 1 ]

\* ------------------------------------------------------------------ state
\* analyzeRepositoryWithAI when the fetch of analyzeWithCloudFunction ends
ServiceFetchEnd(q, o, version, initialized, endpoint, k1, k2, t) ==
  LET repoPath == RepoPath(q.body)
      options == ServiceOptions(q.body, TRUE)
      result == analyzeWithCloudFunction(o, AnalysisData(repoPath, options),
                                         initialized, endpoint)
  IN AiReturn([q EXCEPT !.trace = SetOutcome(@, RemoteLabel(o, result), "-")],
              version, AiCatch(result, repoPath, options, k1, k2), t)

\* analyzeRepositoryWithAI when the process of analyzeWithLocalEndpoint closes
LocalCloseEnd(q, o, version, initialized, endpoint, k1, k2, t) ==
  LET repoPath == RepoPath(q.body)
      options == ServiceOptions(q.body, FALSE)
      result == analyzeWithLocalEndpoint(o, AnalysisData(repoPath, options),
                                         initialized, endpoint, k1, k2)
  IN AiReturn([q EXCEPT !.trace = SetOutcome(@, LocalLabel(o, result), LocalSaid(o))],
              version, AiCatch(result, repoPath, options, k1, k2), t)

\* the handler when the 2000 ms timer of the standard analysis fires
StandardTimeoutEnd(q, version, k1, k2, t) ==
  Respond([q EXCEPT !.trace = Append(@, Step("standard", "ok"))],
          version, Resolved(StandardAnalysis(q.body, k1, k2)), t)

TypeOK ==
  /\ serverVersion \in {"2.1.0", "2.0.0", "1.0.0"}
  /\ CLOUD_FUNCTION_URL \in BOOLEAN
  /\ USE_CLOUD_FUNCTION \in BOOLEAN
  /\ isInitialized \in BOOLEAN
  /\ initPc \in {"deps", "connection", "done", "failed"}
  /\ crashed \in BOOLEAN
  /\ \A r \in Requests :
       /\ reqs[r].pc \in {"idle", "handler_fetch", "service_fetch", "local_process",
                          "standard_timer", "done"}
       /\ reqs[r].status \in {0, 200, 500}

NoIssues == [asked |-> FALSE]
NoPure == [op |-> "none"]

\* The state after the server file has been loaded: the service is
\* constructed and initialize() has started its first process.
Init ==
  /\ serverVersion \in {"2.1.0", "2.0.0"}
  /\ CLOUD_FUNCTION_URL \in BOOLEAN
  /\ USE_CLOUD_FUNCTION \in (IF serverVersion = "2.0.0" THEN BOOLEAN ELSE {FALSE})
  /\ isInitialized = FALSE
  /\ endpointId = "null"
  /\ initPc = "deps"
  /\ crashed = FALSE
  /\ reqs = [r \in Requests |-> NoRequest]
  /\ issuesOut = NoIssues
  /\ pureOut = NoPure
  /\ calls = [c \in Calls |-> NoCall]
  /\ v1 = NoV1
  /\ clients = [r \in Requests |-> NoClient]
  /\ app = NoApp
  /\ hook = NoHook

env == <<serverVersion, CLOUD_FUNCTION_URL, USE_CLOUD_FUNCTION>>
service == <<isInitialized, endpointId, initPc>>
browser == <<app, hook>>
aux == <<calls, v1, clients, browser>>
others == <<issuesOut, pureOut, aux>>

\* ---------------------------------------------------------------- actions
\* checkPythonDependencies(): its process closes.  A non-zero code rejects,
\* and the catch of initialize() returns false.
DepsCloseWith(code) ==
  /\ ~crashed /\ initPc = "deps"
  /\ initPc' = IF code = 0 THEN "connection" ELSE "failed"
  /\ UNCHANGED <<env, isInitialized, endpointId, crashed, reqs, issuesOut, aux>>

DepsClose ==
  /\ \E code \in {0, 1} : DepsCloseWith(code)
  /\ UNCHANGED pureOut

\* testVertexAIConnection(): its process closes.  It resolves for every exit
\* code, and initialize() sets isInitialized.
ConnectionCloseWith(code) ==
  /\ ~crashed /\ initPc = "connection"
  /\ initPc' = "done"
  /\ isInitialized' = TRUE
  /\ UNCHANGED <<env, endpointId, crashed, reqs, issuesOut, aux>>

ConnectionClose ==
  /\ \E code \in {0, 1} : ConnectionCloseWith(code)
  /\ UNCHANGED pureOut

\* A child process emits 'error' (it could not be spawned).  No listener is
\* registered for it in AdvancedAIService, so the event is thrown as an
\* uncaught exception and the Node process ends.
InitProcessError ==
  /\ ~crashed /\ initPc \in {"deps", "connection"}
  /\ crashed' = TRUE
  /\ UNCHANGED <<env, service, reqs, others>>

LocalProcessError(r) ==
  /\ ~crashed /\ reqs[r].pc = "local_process"
  /\ crashed' = TRUE
  /\ UNCHANGED <<env, service, reqs, others>>

\* POST /api/analyze arrives
Receive(r) ==
  /\ ~crashed /\ reqs[r].pc = "idle"
  /\ \A p \in Requests : p < r => reqs[p].pc # "idle"
  /\ \E body \in Bodies, strict \in BOOLEAN, k \in RandomPairs, t \in Clock :
       LET q == [NoRequest EXCEPT !.body = body] IN
       reqs' = [reqs EXCEPT ![r] =
                  IF serverVersion = "2.1.0"
                  THEN PostAnalyze210(q, isInitialized, CLOUD_FUNCTION_URL,
                                      strict, k[1], k[2], t)
                  ELSE PostAnalyze200(q, isInitialized, CLOUD_FUNCTION_URL,
                                      USE_CLOUD_FUNCTION, strict, k[1], k[2], t)]
  /\ UNCHANGED <<env, service, crashed, others>>

\* the handler's fetch of the Cloud Function ends (server 2.1.0)
HandlerFetchDone(r) ==
  /\ ~crashed /\ reqs[r].pc = "handler_fetch"
  /\ \E o \in RemoteOutcomes, strict \in BOOLEAN, k \in RandomPairs, t \in Clock :
       reqs' = [reqs EXCEPT ![r] =
                  HandlerFetchEnd(reqs[r], o, isInitialized, CLOUD_FUNCTION_URL,
                                  strict, k[1], k[2], t)]
  /\ UNCHANGED <<env, service, crashed, others>>

\* the fetch of analyzeWithCloudFunction ends
ServiceFetchDone(r) ==
  /\ ~crashed /\ reqs[r].pc = "service_fetch"
  /\ \E o \in RemoteOutcomes, k \in RandomPairs, t \in Clock :
       reqs' = [reqs EXCEPT ![r] =
                  ServiceFetchEnd(reqs[r], o, serverVersion, isInitialized, endpointId,
                                  k[1], k[2], t)]
  /\ UNCHANGED <<env, service, crashed, others>>

\* the process of analyzeWithLocalEndpoint closes
LocalClose(r) ==
  /\ ~crashed /\ reqs[r].pc = "local_process"
  /\ \E o \in LocalOutcomes, k \in RandomPairs, t \in Clock :
       reqs' = [reqs EXCEPT ![r] =
                  LocalCloseEnd(reqs[r], o, serverVersion, isInitialized, endpointId,
                                k[1], k[2], t)]
  /\ UNCHANGED <<env, service, crashed, others>>

\* the 2000 ms timer of the standard analysis fires
StandardTimeout(r) ==
  /\ ~crashed /\ reqs[r].pc = "standard_timer"
  /\ \E k \in RandomPairs, t \in Clock :
       reqs' = [reqs EXCEPT ![r] =
                  StandardTimeoutEnd(reqs[r], serverVersion, k[1], k[2], t)]
  /\ UNCHANGED <<env, service, crashed, others>>

Next ==
  \/ DepsClose
  \/ ConnectionClose
  \/ InitProcessError
  \/ \E r \in Requests : Receive(r)
  \/ \E r \in Requests : HandlerFetchDone(r)
  \/ \E r \in Requests : ServiceFetchDone(r)
  \/ \E r \in Requests : LocalClose(r)
  \/ \E r \in Requests : LocalProcessError(r)
  \/ \E r \in Requests : StandardTimeout(r)

Spec == Init /\ [][Next]_vars

\* Every backend call that has been issued ends: a fetch with a response or a
\* network error, the local process with its close or with the 'error' event
\* of a failed spawn, the timer of the standard analysis by firing.
BackendsTerminate ==
  \A r \in Requests :
    /\ WF_vars(HandlerFetchDone(r))
    /\ WF_vars(ServiceFetchDone(r))
    /\ WF_vars(LocalClose(r) \/ LocalProcessError(r))
    /\ WF_vars(StandardTimeout(r))

\* the server when the two processes of initialize() can be spawned, with
\* the first request alone
NextLive ==
  \/ DepsClose
  \/ ConnectionClose
  \/ Receive(1)
  \/ \E r \in Requests : HandlerFetchDone(r)
  \/ \E r \in Requests : ServiceFetchDone(r)
  \/ \E r \in Requests : LocalClose(r)
  \/ \E r \in Requests : LocalProcessError(r)
  \/ \E r \in Requests : StandardTimeout(r)

SpecLive == Init /\ [][NextLive]_vars /\ BackendsTerminate

\* ------------------------------- initialize() with its exit codes on record
\* The exit codes of the two processes of initialize() are kept in pureOut
\* ("-" for a process that has not closed).
DepsCloseSeen ==
  \E code \in {0, 1} :
    /\ DepsCloseWith(code)
    /\ pureOut' = [op |-> "initialize", deps |-> code, connection |-> "-"]

ConnectionCloseSeen ==
  \E code \in {0, 1} :
    /\ ConnectionCloseWith(code)
    /\ pureOut' = [pureOut EXCEPT !.connection = code]

NextInit ==
  \/ DepsCloseSeen
  \/ ConnectionCloseSeen
  \/ InitProcessError
  \/ Receive(1)
  \/ HandlerFetchDone(1)
  \/ ServiceFetchDone(1)
  \/ LocalClose(1)
  \/ LocalProcessError(1)
  \/ StandardTimeout(1)

SpecInit == Init /\ [][NextInit]_vars

\* ----------------------------------------------- GET /api/issues on its own
\* GET /api/issues arrives and is answered; the handler does not suspend and
\* reads nothing but its query, so one request is followed
IssuesRequest ==
  /\ ~crashed /\ ~issuesOut.asked
  /\ \E query \in Queries :
       issuesOut' = [ asked |-> TRUE, query |-> query,
                      resp |-> GetIssues(serverVersion, query) ]
  /\ UNCHANGED <<env, service, crashed, reqs, pureOut, aux>>

NextIssues == IssuesRequest

SpecIssues == Init /\ [][NextIssues]_vars

\* ------------------------------------- getFallbackAnalysis on its own
\* getFallbackAnalysis(repoPath, options) is called once, with any two draws
\* of Math.random()
FallbackCall ==
  /\ pureOut.op = "none"
  /\ \E body \in Bodies, k1 \in MathRandom, k2 \in MathRandom :
       pureOut' = [ op |-> "getFallbackAnalysis",
                    repoPath |-> RepoPath(body),
                    options |-> ServiceOptions(body, FALSE),
                    out |-> getFallbackAnalysis(RepoPath(body),
                                                ServiceOptions(body, FALSE), k1, k2) ]
  /\ UNCHANGED <<env, service, crashed, reqs, issuesOut, aux>>

\* getFallbackAnalysis(repoPath, options) is called a second time with the
\* arguments of the first call; its draws of Math.random() are its own
FallbackCallAgain ==
  /\ pureOut.op = "getFallbackAnalysis" /\ ~Has(pureOut, "again")
  /\ \E k \in RandomPairs :
       pureOut' = ("again" :> getFallbackAnalysis(pureOut.repoPath, pureOut.options,
                                                  k[1], k[2])) @@ pureOut
  /\ UNCHANGED <<env, service, crashed, reqs, issuesOut, aux>>

NextFallback ==
  \/ FallbackCall
  \/ FallbackCallAgain

SpecFallback == Init /\ [][NextFallback]_vars

\* ------------------------------------- the other endpoints, with the service
\* GET /api/cloud-function/status arrives (server 2.1.0 has this endpoint)
CloudFunctionStatusRequest(c) ==
  /\ ~crashed /\ serverVersion = "2.1.0" /\ calls[c].pc = "idle"
  /\ \A p \in Calls : p < c => calls[p].pc # "idle"
  /\ calls' = [calls EXCEPT ![c] = GetCloudFunctionStatus(CLOUD_FUNCTION_URL)]
  /\ UNCHANGED <<env, service, crashed, reqs, issuesOut, pureOut, v1, clients, browser>>

\* the fetch of the health check ends
HealthFetchDone(c) ==
  /\ ~crashed /\ calls[c].pc = "health_fetch"
  /\ \E o \in HealthOutcomes :
       calls' = [calls EXCEPT ![c] = HealthFetchEnd(calls[c], o, CLOUD_FUNCTION_URL)]
  /\ UNCHANGED <<env, service, crashed, reqs, issuesOut, pureOut, v1, clients, browser>>

\* POST /api/ai/create-endpoint arrives
CreateEndpointRequest(c) ==
  /\ ~crashed /\ calls[c].pc = "idle"
  /\ \A p \in Calls : p < c => calls[p].pc # "idle"
  /\ calls' = [calls EXCEPT ![c] = PostCreateEndpoint(isInitialized)]
  /\ UNCHANGED <<env, service, crashed, reqs, issuesOut, pureOut, v1, clients, browser>>

\* the endpoint manager process closes
EndpointClose(c) ==
  /\ ~crashed /\ calls[c].pc = "endpoint_process"
  /\ \E o \in EndpointOutcomes :
       LET outcome == createEndpoint(o) IN
       /\ endpointId' = IF outcome.kind = "resolved" THEN outcome.value ELSE endpointId
       /\ calls' = [calls EXCEPT ![c] = CreateEndpointEnd(calls[c], outcome)]
  /\ UNCHANGED <<env, isInitialized, initPc, crashed, reqs, issuesOut, pureOut, v1, clients, browser>>

\* GET /api/ai/status arrives: getAIStatus() reads the service's fields and
\* starts the dependency check
AIStatusRequest(c) ==
  /\ ~crashed /\ calls[c].pc = "idle"
  /\ \A p \in Calls : p < c => calls[p].pc # "idle"
  /\ \E credentials \in BOOLEAN :
       calls' = [calls EXCEPT ![c] =
                   [NoCall EXCEPT !.pc = "status_process", !.endpoint = "ai/status",
                      !.resp = AIStatusRead(isInitialized, endpointId, credentials,
                                            CLOUD_FUNCTION_URL)]]
  /\ UNCHANGED <<env, service, crashed, reqs, issuesOut, pureOut, v1, clients, browser>>

\* the dependency check of getAIStatus() closes and the status is sent
AIStatusClose(c) ==
  /\ ~crashed /\ calls[c].pc = "status_process"
  /\ \E code \in {0, 1} :
       calls' = [calls EXCEPT ![c] =
                   [@ EXCEPT !.pc = "done", !.status = 200,
                      !.resp = getAIStatus(calls[c].resp, isInitialized, endpointId,
                                           code = 0)]]
  /\ UNCHANGED <<env, service, crashed, reqs, issuesOut, pureOut, v1, clients, browser>>

\* the dependency check of getAIStatus() emits 'error': no listener, the
\* process ends
AIStatusProcessError(c) ==
  /\ ~crashed /\ calls[c].pc = "status_process"
  /\ crashed' = TRUE
  /\ UNCHANGED <<env, service, reqs, others>>

\* the endpoint manager process emits 'error': no listener, the process ends
EndpointProcessError(c) ==
  /\ ~crashed /\ calls[c].pc = "endpoint_process"
  /\ crashed' = TRUE
  /\ UNCHANGED <<env, service, reqs, others>>

NextEndpoints ==
  \/ DepsClose
  \/ ConnectionClose
  \/ InitProcessError
  \/ \E c \in Calls : CloudFunctionStatusRequest(c)
  \/ \E c \in Calls : HealthFetchDone(c)
  \/ \E c \in Calls : CreateEndpointRequest(c)
  \/ \E c \in Calls : EndpointClose(c)
  \/ \E c \in Calls : EndpointProcessError(c)
  \/ \E c \in Calls : AIStatusRequest(c)
  \/ \E c \in Calls : AIStatusClose(c)
  \/ \E c \in Calls : AIStatusProcessError(c)

SpecEndpoints == Init /\ [][NextEndpoints]_vars

\* ------------------------------------------------ the first server running
\* The state after the first server's file has been loaded: AIAnalysisService
\* has no initialization; GOOGLE_APPLICATION_CREDENTIALS is set or not.
InitV1 ==
  /\ serverVersion = "1.0.0"
  /\ CLOUD_FUNCTION_URL = FALSE
  /\ USE_CLOUD_FUNCTION = FALSE
  /\ isInitialized = FALSE
  /\ endpointId = "null"
  /\ initPc = "done"
  /\ crashed = FALSE
  /\ reqs = [r \in Requests |-> NoRequest]
  /\ issuesOut = NoIssues
  /\ pureOut = NoPure
  /\ calls = [c \in Calls |-> NoCall]
  /\ \E credentials \in BOOLEAN : v1 = [NoV1 EXCEPT !.credentials = credentials]
  /\ clients = [r \in Requests |-> NoClient]
  /\ app = NoApp
  /\ hook = NoHook

unchangedV1 == <<env, service, crashed, reqs, issuesOut, pureOut, calls, clients, browser>>

\* POST /api/analyze arrives
V1Receive(r) ==
  /\ v1.reqs[r].pc = "idle"
  /\ \A p \in Requests : p < r => v1.reqs[p].pc # "idle"
  /\ \E body \in Bodies, strict \in BOOLEAN :
       v1' = [v1 EXCEPT !.reqs[r] =
                V1PostAnalyze([NoV1Request EXCEPT !.body = body], v1.credentials, strict)]
  /\ UNCHANGED unchangedV1

\* the analysis process closes
V1Close(r) ==
  /\ v1.reqs[r].pc = "local_process"
  /\ \E o \in LocalOutcomes :
       LET outcome == analyzeWithAI(o) IN
       v1' = [v1 EXCEPT !.reqs[r] =
                V1Respond([@ EXCEPT !.trace = SetOutcome(@, V1Label(o, outcome),
                                                         LocalSaid(o))],
                          outcome)]
  /\ UNCHANGED unchangedV1

\* the analysis process emits 'error': the listener rejects with it
V1ProcessError(r) ==
  /\ v1.reqs[r].pc = "local_process"
  /\ \E e \in SpawnErrors :
       v1' = [v1 EXCEPT !.reqs[r] =
                V1Respond([@ EXCEPT !.trace = SetOutcome(@, "spawn_error", "-")],
                          Rejected(e))]
  /\ UNCHANGED unchangedV1

\* the 2000 ms timer of the standard analysis fires
V1StandardTimeout(r) ==
  /\ v1.reqs[r].pc = "standard_timer"
  /\ \E k \in RandomPairs, k3 \in {0, RandomDen - 1} :
       v1' = [v1 EXCEPT !.reqs[r] =
                V1Respond([@ EXCEPT !.trace = Append(@, Step("standard", "ok"))],
                          Resolved(JObj(Serialise(
                            V1StandardAnalysis(v1.reqs[r].body, k[1], k[2], k3)))))]
  /\ UNCHANGED unchangedV1

NextV1 ==
  \/ \E r \in Requests : V1Receive(r)
  \/ \E r \in Requests : V1Close(r)
  \/ \E r \in Requests : V1ProcessError(r)
  \/ \E r \in Requests : V1StandardTimeout(r)

SpecV1 == InitV1 /\ [][NextV1]_vars

\* --------------------------------------- the browser client and the server
\* this.request('/analyze', {method: 'POST', body}) of the call c: the request
\* reaches the server's handler, or the server is gone and fetch rejects
ClientPost(r, c, body) ==
  IF crashed
  THEN /\ clients' = [clients EXCEPT ![r] = [c EXCEPT !.pc = "failed", !.posts = @ + 1]]
       /\ UNCHANGED reqs
  ELSE /\ clients' = [clients EXCEPT ![r] = [c EXCEPT !.pc = "posted", !.posts = @ + 1]]
       /\ \E strict \in BOOLEAN, k \in RandomPairs, t \in Clock :
            LET q == [NoRequest EXCEPT !.body = body] IN
            reqs' = [reqs EXCEPT ![r] =
                       IF serverVersion = "2.1.0"
                       THEN PostAnalyze210(q, isInitialized, CLOUD_FUNCTION_URL,
                                           strict, k[1], k[2], t)
                       ELSE PostAnalyze200(q, isInitialized, CLOUD_FUNCTION_URL,
                                           USE_CLOUD_FUNCTION, strict, k[1], k[2], t)]

\* startAnalysis(data) is called: with useCloudFunction the client calls the
\* Cloud Function itself, without it the client posts to the local API
ClientStart(r) ==
  /\ r \in 1..MaxClients
  /\ clients[r].pc = "idle" /\ reqs[r].pc = "idle"
  /\ \E data \in ClientData :
       IF UseCloudFunction(data)
       THEN /\ clients' = [clients EXCEPT ![r] =
                             [NoClient EXCEPT !.pc = "client_fetch", !.data = data,
                                              !.trace = <<Step("remote", "sent")>>]]
            /\ UNCHANGED reqs
       ELSE ClientPost(r, [NoClient EXCEPT !.data = data], data)
  /\ UNCHANGED <<env, service, crashed, issuesOut, pureOut, calls, v1, browser>>

\* the client's fetch of the Cloud Function ends: the answer is turned into
\* the result, or the catch posts to the local API
ClientFetchDone(r) ==
  /\ clients[r].pc = "client_fetch"
  /\ \E o \in RemoteOutcomes, k \in {0, RandomDen - 1} :
       LET c == clients[r]
           cloudResponse == cloudFunctionRequest(o)
           answered == IF cloudResponse.kind = "resolved" /\ cloudResponse.value.t # "object"
                       THEN Rejected("TypeError") ELSE cloudResponse
           tried == [c EXCEPT !.trace = SetOutcome(@, RemoteLabel(o, answered), RemoteSaid(o))]
       IN IF answered.kind = "resolved"
          THEN /\ clients' = [clients EXCEPT ![r] =
                                [tried EXCEPT !.pc = "done",
                                   !.result = ClientCloudResult(c.data, answered.value.v, k)]]
               /\ UNCHANGED reqs
          ELSE ClientPost(r, tried, ClientFallbackBody(c.data))
  /\ UNCHANGED <<env, service, crashed, issuesOut, pureOut, calls, v1, browser>>

\* the response of the local API arrives: request() returns its body, or
\* throws when the status is not 2xx
ClientResponse(r) ==
  /\ clients[r].pc = "posted" /\ reqs[r].pc = "done"
  /\ clients' = [clients EXCEPT ![r] =
                   IF reqs[r].status \in 200..299
                   THEN [@ EXCEPT !.pc = "done", !.result = reqs[r].resp]
                   ELSE [@ EXCEPT !.pc = "failed"]]
  /\ UNCHANGED <<env, service, crashed, reqs, issuesOut, pureOut, calls, v1, browser>>

\* the server ends before it has answered: the client's fetch rejects
ClientApiUnreachable(r) ==
  /\ clients[r].pc = "posted" /\ reqs[r].pc # "done" /\ crashed
  /\ clients' = [clients EXCEPT ![r].pc = "failed"]
  /\ UNCHANGED <<env, service, crashed, reqs, issuesOut, pureOut, calls, v1, browser>>

NextClient ==
  \/ DepsClose
  \/ ConnectionClose
  \/ InitProcessError
  \/ \E r \in Requests : clients[r].pc = "idle" /\ Receive(r)
  \/ \E r \in Requests : HandlerFetchDone(r)
  \/ \E r \in Requests : ServiceFetchDone(r)
  \/ \E r \in Requests : LocalClose(r)
  \/ \E r \in Requests : LocalProcessError(r)
  \/ \E r \in Requests : StandardTimeout(r)
  \/ \E r \in Requests : ClientStart(r)
  \/ \E r \in Requests : ClientFetchDone(r)
  \/ \E r \in Requests : ClientResponse(r)
  \/ \E r \in Requests : ClientApiUnreachable(r)

SpecClient == Init /\ [][NextClient]_vars

\* ------------------------------------------------- the dashboard running
unchangedApp == <<env, service, crashed, reqs, issuesOut, pureOut, calls, v1, clients, hook>>

\* the check of the Cloud Function made on mount settles
\* (apiService.testCloudFunction() returns false for every error)
CheckCloudFunctionDone ==
  /\ app.cloudFunctionStatus = "unknown"
  /\ \E isAvailable \in BOOLEAN :
       app' = [app EXCEPT !.cloudFunctionStatus =
                 IF isAvailable THEN "available" ELSE "unavailable"]
  /\ UNCHANGED unchangedApp

\* the form is submitted: its button is disabled while isAnalyzing is true
StartAnalysisClick ==
  /\ ~app.isAnalyzing /\ app.started < MaxAnalyses
  /\ app' = handleStartAnalysis(app)
  /\ UNCHANGED unchangedApp

\* apiService.startAnalysis settles
AnalysisSettles ==
  /\ app.analysis = "in_flight" /\ app.now < MaxTime
  /\ \E outcome \in AnalysisOutcomes : app' = handleStartAnalysisEnd(app, outcome)
  /\ UNCHANGED unchangedApp

\* Date.now() moves on
Tick ==
  /\ app.now < MaxTime
  /\ app' = [app EXCEPT !.now = @ + 1]
  /\ UNCHANGED unchangedApp

\* the 5-second timer of a notification fires: time has passed since it was
\* set, and timers of equal delay fire in the order they were set
TimerFires ==
  /\ \E timer \in app.timers :
       /\ timer.id < app.now
       /\ \A other \in app.timers : other.serial >= timer.serial
       /\ app' = [removeNotification(app, timer.id) EXCEPT !.timers = @ \ {timer}]
  /\ UNCHANGED unchangedApp

\* the close button of a displayed notification is clicked
Dismiss ==
  /\ \E i \in DOMAIN app.notifications :
       app' = removeNotification(app, app.notifications[i].id)
  /\ UNCHANGED unchangedApp

NextDashboard ==
  \/ CheckCloudFunctionDone
  \/ StartAnalysisClick
  \/ AnalysisSettles
  \/ Tick
  \/ TimerFires
  \/ Dismiss

SpecDashboard == Init /\ [][NextDashboard]_vars

\* time passes and every timer that is due fires
SpecDashboardLive ==
  Init /\ [][NextDashboard]_vars /\ WF_vars(Tick) /\ WF_vars(TimerFires)

\* ------------------------------------------------- useApiData in a component
unchangedHook == <<env, service, crashed, reqs, issuesOut, pureOut, calls, v1, clients, app>>

\* apiCall() settles
ApiDataFetchDone ==
  /\ hook.inFlight > 0
  /\ \E outcome \in ApiCallOutcomes : hook' = fetchDataEnd(hook, outcome)
  /\ UNCHANGED unchangedHook

\* the component calls the returned refetch()
Refetch ==
  /\ hook.refetches < MaxFetches
  /\ hook' = refetch(hook)
  /\ UNCHANGED unchangedHook

\* a dependency of the effect changes and the effect runs again
DependenciesChange ==
  /\ hook.fetches < MaxFetches
  /\ hook' = fetchData(hook)
  /\ UNCHANGED unchangedHook

NextHook ==
  \/ ApiDataFetchDone
  \/ Refetch
  \/ DependenciesChange

\* every fetch settles
SpecHook == Init /\ [][NextHook]_vars /\ WF_vars(ApiDataFetchDone)

\* ------------------------------------------- the adapters on their own
\* the values this.endpointId takes
EndpointIds == {"null", "ep-1"}

\* analyzeWithLocalEndpoint(analysisData) is called, as analyzeRepositoryWithAI
\* calls it (the service is initialized), and its process closes
LocalEndpointCall ==
  /\ pureOut.op = "none"
  /\ \E body \in Bodies, o \in LocalOutcomes, endpoint \in EndpointIds, k \in RandomPairs :
       LET analysisData == AnalysisData(RepoPath(body), ServiceOptions(body, FALSE)) IN
       pureOut' = [ op |-> "analyzeWithLocalEndpoint", o |-> o, data |-> analysisData,
                    out |-> analyzeWithLocalEndpoint(o, analysisData, TRUE, endpoint,
                                                     k[1], k[2]) ]
  /\ UNCHANGED <<env, service, crashed, reqs, issuesOut, aux>>

\* AIAnalysisService.analyzeWithAI(repoPath, options) is called and its process
\* closes
AnalyzeWithAICall ==
  /\ pureOut.op = "none"
  /\ \E o \in LocalOutcomes :
       pureOut' = [ op |-> "analyzeWithAI", o |-> o, out |-> analyzeWithAI(o) ]
  /\ UNCHANGED <<env, service, crashed, reqs, issuesOut, aux>>

\* bodies of a 2xx answer that are JSON objects without the status field or
\* without the issues array
RemoteNoStatus == [issues |-> <<>>, metadata |-> [files_analyzed |-> 7]]
RemoteEmpty == EmptyObj
RemoteAnalysisOnly == [analysis |-> [success |-> TRUE]]

AdapterRemoteOutcomes ==
  RemoteOutcomes
  \cup { [net |-> "response", ok |-> TRUE, body |-> Json(JObj(doc))] :
           doc \in {RemoteNoStatus, RemoteEmpty, RemoteAnalysisOnly} }

\* the handler of server 2.1.0 has sent its fetch of the Cloud Function for a
\* request with useCloudFunction true, and the fetch ends
HandlerFetchCall ==
  /\ pureOut.op = "none" /\ serverVersion = "2.1.0"
  /\ \E body \in {b \in Bodies : UseCloudFunction(b)}, o \in AdapterRemoteOutcomes,
        initialized \in BOOLEAN, strict \in BOOLEAN, k \in RandomPairs, t \in Clock :
       LET q == [NoRequest EXCEPT !.body = body, !.pc = "handler_fetch",
                                  !.trace = <<Step("remote", "sent")>>]
       IN pureOut' = [ op |-> "handlerFetch", o |-> o,
                       out |-> HandlerFetchEnd(q, o, initialized, TRUE, strict,
                                               k[1], k[2], t) ]
  /\ UNCHANGED <<env, service, crashed, reqs, issuesOut, aux>>

\* analyzeWithCloudFunction(analysisData) is called, as analyzeRepositoryWithAI
\* calls it, with the URL configured, and its fetch ends
CloudFunctionCall ==
  /\ pureOut.op = "none"
  /\ \E body \in Bodies, o \in AdapterRemoteOutcomes, endpoint \in EndpointIds :
       LET analysisData == AnalysisData(RepoPath(body), ServiceOptions(body, TRUE)) IN
       pureOut' = [ op |-> "analyzeWithCloudFunction", o |-> o, data |-> analysisData,
                    out |-> analyzeWithCloudFunction(o, analysisData, TRUE, endpoint) ]
  /\ UNCHANGED <<env, service, crashed, reqs, issuesOut, aux>>

\* ------------------------------------------ enhanceAnalysisResult on objects
\* Objects in memory: heap[ref] is the object the reference ref points to.
\* An argument is a reference or one of the values null and undefined.
Ref(n) == [t |-> "ref", ref |-> n]

\* the raw results the backends hand to enhanceAnalysisResult: the parsed
\* output of the local process, result.analysis of the Cloud Function's answer
RawResults ==
  { JUndefined, JNull, JObj(EmptyObj), JObj(LocalFull), JObj(LocalFailure),
    JObj(RemoteFull["analysis"]) }

\* the raw result as enhanceAnalysisResult reads it
Deref(heap, arg) == IF arg.t = "ref" THEN JObj(heap[arg.ref]) ELSE arg

\* Object.assign(result, {...}) in the place of the object literal: the raw
\* result itself gets the metadata and is returned
enhanceInPlace(heap, resultArg, dataRef, initialized, endpoint) ==
  LET out == enhanceAnalysisResult(Deref(heap, resultArg), heap[dataRef],
                                   initialized, endpoint)
  IN IF out.kind = "rejected" THEN [heap |-> heap, outcome |-> out]
     ELSE [ heap |-> [heap EXCEPT ![resultArg.ref] = out.value],
            outcome |-> Resolved(resultArg) ]

\* enhanceAnalysisResult(result, analysisData) on the heap: the object literal
\* { ...result, enhanced_metadata, performance_metrics } is a new object
enhanceOnHeap(heap, resultArg, dataRef, initialized, endpoint) ==
  LET out == enhanceAnalysisResult(Deref(heap, resultArg), heap[dataRef],
                                   initialized, endpoint)
      new == Len(heap) + 1
  IN IF out.kind = "rejected" THEN [heap |-> heap, outcome |-> out]
     ELSE [ heap |-> Append(heap, out.value), outcome |-> Resolved(Ref(new)) ]

\* enhanceAnalysisResult(result, analysisData) is called on the service
EnhanceCall ==
  /\ pureOut.op = "none"
  /\ UNCHANGED <<env, service, crashed, reqs, issuesOut, aux>>
  /\ \E result \in RawResults, body \in Bodies, ucf \in BOOLEAN :
       LET analysisData == AnalysisData(RepoPath(body), ServiceOptions(body, ucf))
           heap == IF result.t = "object" THEN <<analysisData, result.v>>
                   ELSE <<analysisData>>
           resultArg == IF result.t = "object" THEN Ref(2) ELSE result
           call == enhanceOnHeap(heap, resultArg, 1, isInitialized, endpointId)
       IN pureOut' = [ op |-> "enhanceAnalysisResult",
                       result |-> resultArg, data |-> Ref(1),
                       before |-> heap, after |-> call.heap, out |-> call.outcome,
                       selfBefore |-> <<isInitialized, endpointId>>,
                       selfAfter |-> <<isInitialized', endpointId'>> ]

NextAdapters ==
  \/ DepsClose
  \/ ConnectionClose
  \/ InitProcessError
  \/ LocalEndpointCall
  \/ AnalyzeWithAICall
  \/ HandlerFetchCall
  \/ CloudFunctionCall
  \/ EnhanceCall

SpecAdapters == Init /\ [][NextAdapters]_vars

\* ------------------------- /api/analyze and /api/issues handled concurrently
\* queries of the GET /api/issues requests that arrive during an analysis
ConcurrentQueries == {EmptyObj, "type" :> "security"}

\* GET /api/issues arrives and is answered while a POST /api/analyze request
\* waits for its backend or its timer
IssuesDuring ==
  /\ ~crashed /\ ~issuesOut.asked
  /\ \E r \in Requests : reqs[r].pc \notin {"idle", "done"}
  /\ \E query \in ConcurrentQueries :
       issuesOut' = [ asked |-> TRUE, query |-> query,
                      resp |-> GetIssues(serverVersion, query) ]
  /\ UNCHANGED <<env, service, crashed, reqs, pureOut, aux>>

NextConcurrent ==
  \/ DepsClose
  \/ ConnectionClose
  \/ InitProcessError
  \/ \E r \in Requests : Receive(r)
  \/ \E r \in Requests : HandlerFetchDone(r)
  \/ \E r \in Requests : ServiceFetchDone(r)
  \/ \E r \in Requests : LocalClose(r)
  \/ \E r \in Requests : LocalProcessError(r)
  \/ \E r \in Requests : StandardTimeout(r)
  \/ IssuesDuring

SpecConcurrent == Init /\ [][NextConcurrent]_vars

\* The configuration a handler reads: the server file, the environment and
\* the service's endpointId.
Configs ==
  [version : {"2.1.0", "2.0.0"}, url : BOOLEAN, ucf : BOOLEAN, endpoint : EndpointIds]

\* POST /api/analyze handled with no other request on the server: the request
\* up to its first suspension, for every state of the service, every reading
\* of the clock and every draw
AloneStart(c, body) ==
  LET q == [NoRequest EXCEPT !.body = body] IN
  { IF c.version = "2.1.0"
    THEN PostAnalyze210(q, initialized, c.url, strict, k[1], k[2], t)
    ELSE PostAnalyze200(q, initialized, c.url, c.ucf, strict, k[1], k[2], t) :
      initialized \in BOOLEAN, strict \in BOOLEAN, k \in RandomPairs, t \in Clock }

\* the request q after the end of what it waits for, for every such end
AloneStep(c, q) ==
  CASE q.pc = "handler_fetch" ->
         { HandlerFetchEnd(q, o, initialized, c.url, strict, k[1], k[2], t) :
             o \in RemoteOutcomes, initialized \in BOOLEAN, strict \in BOOLEAN,
             k \in RandomPairs, t \in Clock }
    [] q.pc = "service_fetch" ->
         { ServiceFetchEnd(q, o, c.version, initialized, c.endpoint, k[1], k[2], t) :
             o \in RemoteOutcomes, initialized \in BOOLEAN, k \in RandomPairs, t \in Clock }
    [] q.pc = "local_process" ->
         { LocalCloseEnd(q, o, c.version, initialized, c.endpoint, k[1], k[2], t) :
             o \in LocalOutcomes, initialized \in BOOLEAN, k \in RandomPairs, t \in Clock }
    [] q.pc = "standard_timer" ->
         { StandardTimeoutEnd(q, c.version, k[1], k[2], t) : k \in RandomPairs, t \in Clock }
    [] OTHER -> {}

AloneAfter(c, qs) == qs \cup UNION { AloneStep(c, q) : q \in qs }

\* every record a request can have when it is the only request, with the
\* configuration it is handled under (the longest chain is fetch, then local
\* process, then response)
AloneRecords ==
  UNION { { <<c, q>> : q \in {NoRequest} \cup
                              AloneAfter(c, AloneAfter(c, AloneStart(c, body))) } :
          c \in Configs, body \in Bodies }

\* ================================================================ claims
Done(r) == reqs[r].pc = "done"
Received(r) == reqs[r].pc # "idle"
Tried(r, b) == \E i \in DOMAIN reqs[r].trace : reqs[r].trace[i].backend = b
Ended(r, b, o) ==
  \E i \in DOMAIN reqs[r].trace :
    reqs[r].trace[i].backend = b /\ reqs[r].trace[i].outcome = o
LastStep(r) == reqs[r].trace[Len(reqs[r].trace)]
RemoteFailures == {"network_error", "non_2xx"}

\* C1: analyzeRepositoryWithAI never rejects to its caller.  A call that has
\* been made is either still waiting for its backend or has resolved with a
\* result object, which the handler sends with status 200; it is so after
\* every end of a backend that lets the process live (service not initialized, URL missing, non-2xx,
\* network error, malformed body, non-zero exit, unparsable output).
C1_AnalyzeNeverRejects ==
  \A r \in Requests :
    /\ reqs[r].ai \in {"none", "called", "resolved"}
    /\ reqs[r].ai = "called" => reqs[r].pc \in {"service_fetch", "local_process"}
    /\ reqs[r].ai = "resolved" =>
         /\ Done(r) /\ reqs[r].status = 200
         /\ Has(reqs[r].resp, "request_metadata")
         /\ \/ Has(reqs[r].resp, "enhanced_metadata")
            \/ Get(reqs[r].resp, "fallback_mode", FALSE)

\* C1 witness: the service was called for two requests; the Cloud Function
\* answered one with a body that is not usable and the other with a non-2xx
\* status, and both calls resolved.
C1_Witness ==
  /\ serverVersion = "2.0.0"
  /\ \E r1, r2 \in Requests :
       /\ reqs[r1].ai = "resolved" /\ Ended(r1, "remote", "malformed")
       /\ reqs[r2].ai = "resolved" /\ Ended(r2, "remote", "non_2xx")

C3_LocalOnlyIfUseAI ==
  \A r \in Requests :
    Tried(r, "local") => UseAI(reqs[r].body) /\ isInitialized

\* C3 as amended: the local adapter of AdvancedAIService is invoked only if
\* the service is initialized and either the request has useAI true or the
\* request asked for the Cloud Function with its URL configured and that call
\* failed (server 2.1.0 then falls back to local AI whatever useAI says).
C3_LocalOnlyIfInitialized ==
  \A r \in Requests :
    Tried(r, "local") =>
      /\ isInitialized
      /\ \/ UseAI(reqs[r].body)
         \/ /\ serverVersion = "2.1.0"
            /\ UseCloudFunction(reqs[r].body) /\ CLOUD_FUNCTION_URL
            /\ reqs[r].trace[1].backend = "remote"
            /\ reqs[r].trace[1].outcome \in {"network_error", "non_2xx", "malformed"}

\* C3 witness: a request with useAI false whose Cloud Function call failed
\* had the local process spawned.
C3_Witness ==
  \E r \in Requests :
    /\ ~UseAI(reqs[r].body) /\ Tried(r, "local") /\ Ended(r, "remote", "non_2xx")

\* C4: a request without repoPath is answered with a 4xx status and no
\* backend is attempted for it.
C4_MissingRepoPathRejected ==
  \A r \in Requests :
    (Received(r) /\ ~Has(reqs[r].body, "repoPath")) =>
      /\ reqs[r].trace = <<>>
      /\ reqs[r].pc # "standard_timer"
      /\ Done(r) => reqs[r].status \in 400..499

\* C5: while CLOUD_FUNCTION_URL is not configured, a request for which the
\* Cloud Function is asked (useCloudFunction true in the body on server 2.1.0,
\* in the options of analyzeRepositoryWithAI on server 2.0.0) makes no call
\* to it and is served by the next path: the AI service when useAI is true,
\* the standard analysis otherwise.
WantsRemote(r) ==
  /\ Received(r)
  /\ IF serverVersion = "2.1.0" THEN UseCloudFunction(reqs[r].body)
     ELSE USE_CLOUD_FUNCTION /\ UseAI(reqs[r].body)

C5_NoCallWithoutUrl ==
  \A r \in Requests :
    (WantsRemote(r) /\ ~CLOUD_FUNCTION_URL) =>
      /\ ~Tried(r, "remote")
      /\ reqs[r].pc \in {"local_process", "standard_timer", "done"}
      /\ reqs[r].pc = "standard_timer" => ~UseAI(reqs[r].body)
      /\ Done(r) =>
           /\ reqs[r].status = 200
           /\ reqs[r].trace[1].backend =
                (IF ~UseAI(reqs[r].body) THEN "standard"
                 ELSE IF reqs[r].trace[1].outcome \in {"not_initialized", "url_missing"}
                 THEN "service" ELSE "local")

\* C5 witness: with no URL configured, of two requests with useCloudFunction
\* true one was served by the local process and the other, with useAI false,
\* by the standard analysis.
C5_Witness ==
  /\ ~CLOUD_FUNCTION_URL /\ serverVersion = "2.1.0"
  /\ \E r, p \in Requests :
       /\ UseCloudFunction(reqs[r].body) /\ Done(r) /\ Ended(r, "local", "ok")
       /\ UseCloudFunction(reqs[p].body) /\ Done(p) /\ Tried(p, "standard")

C7_SameFields ==
  \A r1, r2 \in Requests :
    (Done(r1) /\ Done(r2) /\ reqs[r1].status = 200 /\ reqs[r2].status = 200)
    => DOMAIN reqs[r1].resp = DOMAIN reqs[r2].resp

\* C8: the deterministic fallback returns success true, ai_powered false,
\* fallback_mode true, the two canned issues FALLBACK-001 and FALLBACK-002 in
\* that order, overall_score in 75..94 and total_files in 20..49.
C8_FallbackBounded ==
  pureOut.op = "getFallbackAnalysis" =>
    LET out == pureOut.out IN
    /\ out.success /\ ~out.ai_powered /\ out.fallback_mode
    /\ Len(out.issues) = 2
    /\ out.issues[1].rule = "FALLBACK-001" /\ out.issues[1].type = "quality"
    /\ out.issues[2].rule = "FALLBACK-002" /\ out.issues[2].type = "security"
    /\ out.repository_analysis.overall_score \in 75..94
    /\ out.repository_analysis.total_files \in 20..49

\* C8 witness: the fallback returned the largest score and file count.
C8_Witness ==
  /\ pureOut.op = "getFallbackAnalysis"
  /\ pureOut.out.repository_analysis.overall_score = 94
  /\ pureOut.out.repository_analysis.total_files = 49

\* C9: the issues of a response of GET /api/issues are in ascending
\* remediation_priority, and among equal priorities in descending confidence.
C9_IssuesSorted ==
  issuesOut.asked =>
    LET issues == issuesOut.resp.issues IN
    \A i \in 1..(Len(issues) - 1) :
      \/ issues[i].remediation_priority < issues[i + 1].remediation_priority
      \/ /\ issues[i].remediation_priority = issues[i + 1].remediation_priority
         /\ issues[i].confidence >= issues[i + 1].confidence

\* C9 witness: an unfiltered response, in which the fourth issue of the list
\* has moved to the second place behind the issue of equal priority.
C9_Witness ==
  /\ issuesOut.asked /\ Len(issuesOut.resp.issues) = 4
  /\ issuesOut.resp.issues[1].file = "auth/login.py"
  /\ issuesOut.resp.issues[2].file = "config/settings.py"

\* C10: the issues of a response are exactly the issues of the fixed list that
\* satisfy every filter given in the query (type and severity when given and
\* not empty, ai_only and cloud_function_only when 'true'; server 2.0.0 has no
\* cloud_function_only), each once.
Matches(issue, query) ==
  /\ Truthy(query, "type") => issue.type = query["type"]
  /\ Truthy(query, "severity") => issue.severity = query["severity"]
  /\ (Has(query, "ai_only") /\ query["ai_only"] = "true") => issue.ai_detected
  /\ (/\ serverVersion = "2.1.0" /\ Has(query, "cloud_function_only")
      /\ query["cloud_function_only"] = "true") => issue.cloud_function_analysis

PlainStandard(r) ==
  /\ Received(r) /\ Has(reqs[r].body, "repoPath")
  /\ ~UseAI(reqs[r].body) /\ ~Has(reqs[r].body, "useCloudFunction")

C11_StandardAnalysis ==
  \A r \in Requests :
    PlainStandard(r) =>
      /\ reqs[r].ai = "none"
      /\ ~Tried(r, "remote") /\ ~Tried(r, "local") /\ ~Tried(r, "service")
      /\ reqs[r].pc \in {"standard_timer", "done"}
      /\ Done(r) =>
           /\ reqs[r].status = 200
           /\ reqs[r].resp["ai_powered"] = FALSE
           /\ DOMAIN reqs[r].resp["repository_analysis"] =
                {"overall_score", "total_files", "risk_level", "deployment_ready"}
           /\ reqs[r].resp["repository_analysis"]["overall_score"] \in 80..99

\* C11 witness: two such requests were answered, one with the largest score
\* and one with the smallest.
C11_Witness ==
  \E r1, r2 \in Requests :
    /\ PlainStandard(r1) /\ Done(r1)
    /\ reqs[r1].resp["repository_analysis"]["overall_score"] = 99
    /\ PlainStandard(r2) /\ Done(r2)
    /\ reqs[r2].resp["repository_analysis"]["overall_score"] = 80

\* C12: the message of the error a backend call failed with (the fetch of the
\* Cloud Function, the endpoint manager process) is not part of the body of
\* the response: the "error" and "message" of a response are texts the
\* handler chose.
C12_NoRawError ==
  \A c \in Calls :
    (calls[c].pc = "done" /\ calls[c].error # NoError) =>
      \A key \in {"error", "message"} \cap DOMAIN calls[c].resp :
        calls[c].resp[key] # calls[c].error

\* C13: /api/analyze answers 500 only when every backend, the deterministic
\* fallback included, has failed, never after the failure of one backend;
\* the 500 response has success false, the error message and
\* fallback_available true.
C13_ServerErrorOnlyOnExhaustion ==
  \A r \in Requests :
    v1.reqs[r].status = 500 =>
      /\ \E i \in DOMAIN v1.reqs[r].trace : v1.reqs[r].trace[i].backend = "fallback"
      /\ ~v1.reqs[r].resp.v["success"]
      /\ Has(v1.reqs[r].resp.v, "error")
      /\ Get(v1.reqs[r].resp.v, "fallback_available", FALSE)

\* C14: during one analysis, from the client's startAnalysis (when it comes
\* from the client) to the response of /api/analyze, the Cloud Function is
\* called at most once, the local process is spawned at most once and the
\* deterministic fallback is used at most once.
Attempts(r, b) ==
  LET trace == clients[r].trace \o reqs[r].trace
  IN Cardinality({i \in DOMAIN trace : trace[i].backend = b})

C14_NoRetries ==
  \A r \in Requests :
    \A b \in {"remote", "local", "fallback"} : Attempts(r, b) <= 1

\* C15: no two answered /api/analyze requests have the same
\* request_metadata.request_id.
C15_UniqueRequestId ==
  \A r1, r2 \in Requests :
    (/\ r1 # r2
     /\ Done(r1) /\ reqs[r1].status = 200
     /\ Done(r2) /\ reqs[r2].status = 200)
    => reqs[r1].resp["request_metadata"]["request_id"]
         # reqs[r2].resp["request_metadata"]["request_id"]

\* what a closed process leaves to the adapter: a usable output (exit code 0
\* and a stdout that parses as JSON) or a failure
LocalCalled == pureOut.op \in {"analyzeWithLocalEndpoint", "analyzeWithAI"}
LocalUsable == pureOut.o.code = 0 /\ pureOut.o.stdout.json
\* the adapter's result is made from the output of the process
FromOutput ==
  /\ pureOut.out.kind = "resolved"
  /\ pureOut.op = "analyzeWithLocalEndpoint" => Has(pureOut.out.value, "enhanced_metadata")
\* the fallback analyses for the request data of the call
FallbacksOf(data) ==
  { getFallbackAnalysis(data.repoPath, data, k1, k2) : k1, k2 \in {0, RandomDen - 1} }

\* C16 as stated: the local adapter gives a result made from the output only
\* after exit code 0 with a stdout that parses as JSON, and gives an Error
\* (its promise rejects) after a non-zero exit code or a parse failure.
C16_LocalFailureIsError ==
  LocalCalled =>
    /\ FromOutput => LocalUsable
    /\ ~LocalUsable => pureOut.out.kind = "rejected"

\* C16 as amended: the local adapter gives a result made from the output only
\* after exit code 0 with a stdout that parses as JSON.  After a non-zero exit
\* code or a parse failure AIAnalysisService.analyzeWithAI rejects with an
\* Error whose message is fixed, and AdvancedAIService.analyzeWithLocalEndpoint
\* resolves with the deterministic fallback analysis of the request data; in
\* both nothing of the collected output is in the outcome.
C16_LocalFailureFallsBack ==
  LocalCalled =>
    /\ FromOutput => LocalUsable
    /\ ~LocalUsable =>
         IF pureOut.op = "analyzeWithAI"
         THEN /\ pureOut.out.kind = "rejected"
              /\ pureOut.out.error \in {"Invalid AI analysis output",
                                         "AI analysis process exited with code 1"}
         ELSE /\ pureOut.out.kind = "resolved"
              /\ pureOut.out.value \in FallbacksOf(pureOut.data)

\* C16 witness: the process of analyzeWithLocalEndpoint printed a complete
\* JSON result and exited with code 1, and the adapter resolved with the
\* fallback analysis.
C16_Witness ==
  /\ pureOut.op = "analyzeWithLocalEndpoint"
  /\ pureOut.o.code = 1 /\ pureOut.o.stdout = Json(JObj(LocalFull))
  /\ pureOut.out.kind = "resolved" /\ pureOut.out.value["fallback_mode"]

\* the answer of the Cloud Function is a failure of the remote adapter: no
\* response, a non-2xx status, or a body that is not a JSON object with a
\* status field and an issues array
RemoteFailed(o) ==
  \/ o.net = "error"
  \/ ~o.ok
  \/ ~o.body.json
  \/ o.body.doc.t # "object"
  \/ ~({"status", "issues"} \subseteq DOMAIN o.body.doc.v)

\* C17: such an answer is an Error: the handler of server 2.1.0 goes on to
\* the AI service with it as it does after a network error and answers
\* nothing built from the Cloud Function's answer, and
\* analyzeWithCloudFunction rejects.
C17_RemoteMalformedIsError ==
  /\ (pureOut.op = "handlerFetch" /\ RemoteFailed(pureOut.o)) =>
        /\ pureOut.out.viaCatch
        /\ ~Has(pureOut.out.resp, "cloud_function_used")
  /\ (pureOut.op = "analyzeWithCloudFunction" /\ RemoteFailed(pureOut.o)) =>
        pureOut.out.kind = "rejected"

\* C18: enhanceAnalysisResult returns for every raw result, null and
\* undefined included, and the result it returns has files_processed 0 when
\* the raw result has no repository_analysis.total_files.
Enhanced == pureOut.op = "enhanceAnalysisResult"

C18_EnhanceNeverFails ==
  Enhanced =>
    /\ pureOut.out.kind = "resolved"
    /\ LET raw == Deref(pureOut.before, pureOut.result)
           returned == pureOut.after[pureOut.out.value.ref]
       IN (raw.t # "object" \/ FilesProcessed(raw.v) = 0) =>
            returned["performance_metrics"]["files_processed"] = 0

\* C19: a call of enhanceAnalysisResult that returns leaves the raw result,
\* the request data and the service's isInitialized and endpointId as they
\* were, and the object it returns is neither the raw result nor the request
\* data.
C19_EnhanceKeepsInputs ==
  (Enhanced /\ pureOut.out.kind = "resolved") =>
    /\ \A ref \in DOMAIN pureOut.before : pureOut.after[ref] = pureOut.before[ref]
    /\ pureOut.out.value.ref \notin DOMAIN pureOut.before
    /\ pureOut.selfAfter = pureOut.selfBefore

\* C19 witness: an initialized service enhanced the result of the local
\* process, and the returned object has the fields of the raw result and the
\* metadata.
C19_Witness ==
  /\ Enhanced /\ pureOut.out.kind = "resolved"
  /\ pureOut.selfBefore[1]
  /\ pureOut.before[2] = LocalFull
  /\ LET returned == pureOut.after[pureOut.out.value.ref]
     IN /\ DOMAIN returned = DOMAIN LocalFull \cup {"enhanced_metadata", "performance_metrics"}
        /\ returned["performance_metrics"]["files_processed"] = 12

\* C20: two consecutive calls of the deterministic fallback with the same
\* request return issue lists with the same categories in the same order, and
\* in both lists a more severe issue comes before a less severe one, and of
\* two issues of one severity the one with the higher confidence comes first.
CalledTwice == pureOut.op = "getFallbackAnalysis" /\ Has(pureOut, "again")

Categories(issues) == [i \in DOMAIN issues |-> issues[i].type]

SeverityRank(severity) ==
  CASE severity = "critical" -> 0
    [] severity = "high" -> 1
    [] severity = "medium" -> 2
    [] OTHER -> 3

SeverityThenConfidence(issues) ==
  \A i \in 1..(Len(issues) - 1) :
    \/ SeverityRank(issues[i].severity) < SeverityRank(issues[i + 1].severity)
    \/ /\ issues[i].severity = issues[i + 1].severity
       /\ issues[i].confidence >= issues[i + 1].confidence

C20_FallbackIdempotent ==
  CalledTwice =>
    /\ Categories(pureOut.again.issues) = Categories(pureOut.out.issues)
    /\ SeverityThenConfidence(pureOut.out.issues)
    /\ SeverityThenConfidence(pureOut.again.issues)

\* C21: under every interleaving of POST /api/analyze and GET /api/issues
\* requests, each analysis request is as it can be when it is handled with no
\* other request on the server, for the body it has, the configuration and some
\* ends of its own backend calls, and each response of /api/issues is the one
\* its query gives.
CurrentConfig ==
  [ version |-> serverVersion, url |-> CLOUD_FUNCTION_URL,
    ucf |-> USE_CLOUD_FUNCTION, endpoint |-> endpointId ]

C21_NoInterference ==
  /\ \A r \in Requests :
       <<CurrentConfig, reqs[r]>> \in AloneRecords
  /\ issuesOut.asked => issuesOut.resp = GetIssues(serverVersion, issuesOut.query)

\* C21 witness: the second request and a /api/issues request were answered
\* while the first request waited for its local process, and the first
\* request was then answered with a different result.
C21_Witness ==
  /\ issuesOut.asked
  /\ Done(1) /\ Done(2)
  /\ Ended(1, "local", "ok") /\ Tried(2, "standard")
  /\ reqs[1].resp # reqs[2].resp

\* C22: endpointId is null until a creation has succeeded and changes only
\* when a createEndpoint call completes with success, to the id that call
\* resolves with; a creation that fails leaves it unchanged; and the status
\* getAIStatus returns carries the endpointId of the moment it was called.
Creation(c) == calls[c].endpoint = "ai/create-endpoint"
Created(c) == Creation(c) /\ calls[c].pc = "done" /\ calls[c].status = 200

CreationCompletes(c) ==
  /\ calls[c].pc = "endpoint_process" /\ calls'[c].pc = "done"
  /\ endpointId' = IF calls'[c].status = 200 THEN calls'[c].resp.endpoint_id
                   ELSE endpointId

StatusCalled(c) ==
  /\ calls[c].pc = "idle" /\ calls'[c].pc = "status_process"
  /\ calls'[c].resp.endpoint_id = endpointId

StatusReturns(c) ==
  /\ calls[c].pc = "status_process" /\ calls'[c].pc = "done"
  /\ calls'[c].resp.endpoint_id = calls[c].resp.endpoint_id

C22_LastEndpointId ==
  /\ []((\A c \in Calls : ~Created(c)) => endpointId = "null")
  /\ []((\E c \in Calls : Created(c)) =>
          \E c \in Calls : Created(c) /\ calls[c].resp.endpoint_id = endpointId)
  /\ [][ /\ endpointId' # endpointId => \E c \in Calls : CreationCompletes(c)
         /\ \A c \in Calls :
              /\ (calls[c].pc = "endpoint_process" /\ calls'[c].pc = "done")
                   => CreationCompletes(c)
              /\ (calls'[c].pc = "status_process" /\ calls[c].pc = "idle")
                   => StatusCalled(c)
              /\ (calls[c].pc = "status_process" /\ calls'[c].pc = "done")
                   => StatusReturns(c) ]_vars

\* C22 witness: two creations overlapped and both succeeded with different
\* ids, and a status asked for afterwards reports the id of one of them.
C22_Witness ==
  /\ Created(1) /\ Created(2)
  /\ calls[1].resp.endpoint_id # calls[2].resp.endpoint_id
  /\ calls[3].endpoint = "ai/status" /\ calls[3].pc = "done"
  /\ calls[3].resp.endpoint_id = endpointId
  /\ endpointId = calls[1].resp.endpoint_id

\* C23: every POST /api/analyze request that has been received is eventually
\* answered, and its answer, once sent, stays as it is (one response), when
\* every backend call it issues ends in some way.
C23_EventuallyAnswered ==
  /\ \A r \in Requests : Received(r) ~> Done(r)
  /\ [][\A r \in Requests : Done(r) => reqs'[r] = reqs[r]]_vars

\* C24: isInitialized is false after construction, is true only when both
\* processes of initialize(), the dependency check and the connection test,
\* have closed with exit code 0, and once true stays true.
C24_InitializedOnlyAfterBoth ==
  /\ ~isInitialized
  /\ [](isInitialized =>
          /\ pureOut.op = "initialize"
          /\ pureOut.deps = 0 /\ pureOut.connection = 0)
  /\ [][isInitialized => isInitialized']_vars

\* C25: a step in which analyzeRepositoryWithAI is called while isInitialized
\* is false ends the request in that step: the answer is the deterministic
\* fallback result with status 200, and the call adds no attempt of the
\* remote function or the local process to the record, whatever
\* useCloudFunction is.
ServiceCalledIn(r) == reqs[r].ai = "none" /\ reqs'[r].ai # "none"

C25_FallbackBeforeInitialized ==
  [][\A r \in Requests :
       (~isInitialized /\ ServiceCalledIn(r)) =>
         /\ reqs'[r].pc = "done" /\ reqs'[r].status = 200
         /\ reqs'[r].resp["fallback_mode"] = TRUE
         /\ reqs'[r].resp["ai_powered"] = FALSE
         /\ DOMAIN reqs'[r].resp["repository_analysis"] =
              {"overall_score", "total_files", "risk_level", "deployment_ready"}
         /\ LET n == Len(reqs[r].trace) IN
            /\ Len(reqs'[r].trace) = n + 2
            /\ \A i \in 1..n : reqs'[r].trace[i].backend = reqs[r].trace[i].backend
            /\ reqs'[r].trace[n + 1] = Step("service", "not_initialized")
            /\ reqs'[r].trace[n + 2] = Step("fallback", "ok")]_vars

\* C25 witness: on server 2.0.0 with USE_CLOUD_FUNCTION=true a request was
\* answered with the fallback result while initialize() was still waiting for
\* its connection test, and nothing else was tried for it.
C25_Witness ==
  /\ serverVersion = "2.0.0" /\ USE_CLOUD_FUNCTION /\ CLOUD_FUNCTION_URL
  /\ initPc = "connection" /\ ~isInitialized
  /\ Done(1) /\ reqs[1].status = 200
  /\ reqs[1].resp["fallback_mode"] = TRUE
  /\ reqs[1].trace = <<Step("service", "not_initialized"), Step("fallback", "ok")>>

\* C26: on server 2.1.0, when the Cloud Function answers the handler's fetch
\* with a 2xx response whose body is a JSON object with a status other than
\* "success", the request is answered with status 200, success false and
\* cloud_function_used true, and neither the AI service, the local process
\* nor the deterministic fallback is tried.
RemoteSaidFailure(r) ==
  /\ serverVersion = "2.1.0"
  /\ Len(reqs[r].trace) >= 1
  /\ reqs[r].trace[1] = [backend |-> "remote", outcome |-> "ok", said |-> "failure"]

C26_RemoteFailureStatusAccepted ==
  \A r \in Requests :
    RemoteSaidFailure(r) =>
      /\ Done(r) /\ reqs[r].status = 200
      /\ reqs[r].resp["success"] = FALSE
      /\ reqs[r].resp["cloud_function_used"] = TRUE
      /\ Len(reqs[r].trace) = 1
      /\ reqs[r].ai = "none"
      /\ ~Has(reqs[r].resp, "fallback_mode")

\* C26 witness: the Cloud Function answered {"status": "error"} while the
\* service was initialized, and the request was answered from that body,
\* with an empty issue list.
C26_Witness ==
  /\ isInitialized
  /\ RemoteSaidFailure(1) /\ Done(1)
  /\ reqs[1].resp["success"] = FALSE
  /\ reqs[1].resp["issues"] = <<>>
  /\ reqs[1].resp["cloud_function_used"] = TRUE

\* C27: startAnalysis with useCloudFunction true calls the Cloud Function
\* once; when that call ends with a network error or a non-2xx response the
\* client sends one POST to /analyze, whose body is the request with
\* useCloudFunction false, and returns the response to it; it fails only
\* when that POST fails.
ClientRemote(r) == UseCloudFunction(clients[r].data) /\ clients[r].pc # "idle"

ClientRemoteFailed(r) ==
  /\ ClientRemote(r)
  /\ clients[r].trace[1].outcome \in RemoteFailures

C27_ClientFallback ==
  \A r \in 1..MaxClients :
    /\ ClientRemote(r) =>
         /\ Len(clients[r].trace) = 1 /\ clients[r].trace[1].backend = "remote"
         /\ clients[r].posts <= 1
    /\ ClientRemoteFailed(r) =>
         /\ clients[r].posts = 1
         /\ Received(r) => reqs[r].body = ("useCloudFunction" :> FALSE) @@ clients[r].data
         /\ clients[r].pc = "done" =>
              /\ Done(r) /\ reqs[r].status \in 200..299
              /\ clients[r].result = reqs[r].resp
         /\ clients[r].pc = "failed" =>
              \/ crashed
              \/ Done(r) /\ reqs[r].status \notin 200..299

\* C27 witness: the Cloud Function could not be reached, the client posted to
\* the local API and returned its response, the result of the local process.
C27_Witness ==
  /\ ClientRemoteFailed(1)
  /\ clients[1].trace[1].outcome = "network_error"
  /\ clients[1].pc = "done" /\ clients[1].posts = 1
  /\ reqs[1].body["useCloudFunction"] = FALSE
  /\ Ended(1, "local", "ok")
  /\ clients[1].result = reqs[1].resp

\* C28: while the request of handleStartAnalysis is in flight isAnalyzing is
\* true and agentStatus is 'analyzing'; when it has finished isAnalyzing is
\* false and agentStatus is 'active' if the result had success true and
\* 'error' if the result had not or the call threw.
C28_AnalysisStateMachine ==
  /\ app.analysis = "in_flight" =>
       app.isAnalyzing /\ app.agentStatus = "analyzing"
  /\ (app.analysis = "idle" /\ app.started > 0) =>
       /\ ~app.isAnalyzing
       /\ app.agentStatus = IF app.last = "success" THEN "active" ELSE "error"

\* C28 witness: a first analysis ended with success true, a second one,
\* started with the Cloud Function available, threw, and the agent shows
\* 'error'.
C28_Witness ==
  /\ app.started = 2 /\ app.analysis = "idle"
  /\ app.useCloudFunction
  /\ Len(app.notifications) = 2
  /\ app.notifications[1].type = "success"
  /\ app.last = "threw"
  /\ app.agentStatus = "error" /\ ~app.isAnalyzing

\* C29: whenever loading is true a fetch is in flight, loading always becomes
\* false again, and when it is false data or error is set.
C29_LoadingEnds ==
  /\ [](hook.loading => hook.inFlight > 0)
  /\ hook.loading ~> ~hook.loading
  /\ [](~hook.loading => (hook.data # "null" \/ hook.error # "null"))

\* C30: every notification shown is eventually removed; a step removes at
\* most one notification; and a timer that fires for a notification that has
\* been dismissed leaves the notifications as they are.
Shown == {app.notifications[i].serial : i \in DOMAIN app.notifications}

RemovedInStep == Shown \ {app'.notifications[i].serial : i \in DOMAIN app'.notifications}

C30_NotificationsRemoved ==
  /\ \A serial \in 1..MaxAnalyses : (serial \in Shown) ~> (serial \notin Shown)
  /\ [][Cardinality(RemovedInStep) <= 1]_vars
  /\ [][\A timer \in app.timers :
          (timer \notin app'.timers /\ timer.serial \notin Shown)
            => app'.notifications = app.notifications]_vars

====
